---- MODULE Spec2Model ----
(***************************************************************************)
(* A model of the command handlers of                                      *)
(* azure/cli/command_modules/network/custom.py.                            *)
(*                                                                         *)
(* The handlers keep no state of their own: the state of the model is the  *)
(* state of the remote resources they fetch, edit and resubmit, together   *)
(* with a record of the last invocation (its arguments, what it fetched,   *)
(* the remote calls it issued and how it ended).                           *)
(***************************************************************************)
EXTENDS Integers, Sequences, FiniteSets, TLC

VARIABLES
    ag,                 \* application gateway: http_listeners, frontend_ip_configurations
    lb,                 \* load balancer: probes
    gateway,            \* virtual network gateway: vpn_client_configuration
    address_pool,       \* backend address pool: load_balancer_backend_addresses
    connection_monitor, \* connection monitor: endpoints, test_configurations, test_groups
    watchers,           \* the network watchers of the subscription
    flow_logs,          \* the flow logs of the network watcher, by name
    virtual_hubs,       \* the virtual hubs, by name, with their IP configurations
    virtual_routers,    \* the old-style virtual routers, by name
    call,               \* the handler invocation blocked on a long-running operation
    operation,          \* the long-running operation of each resource at the service
    record_sets,        \* the record sets of the DNS zone
    waf_policy,         \* the web application firewall policy
    network_interface,  \* network interface: ip_configurations
    invocations,        \* the handler invocation of each client: what it fetched
    last                \* the last handler invocation

\* The resources of the first sections of the model and of the later ones.
first == <<ag, lb, gateway, address_pool, connection_monitor>>
check_vars == <<watchers, flow_logs>>
hub_vars == <<virtual_hubs, virtual_routers>>
poll_vars == <<call, operation>>
policy_vars == <<record_sets, waf_policy>>
later == <<hub_vars, poll_vars, policy_vars>>
fetch_vars == <<network_interface, invocations>>
others == <<check_vars, later, fetch_vars>>

vars == <<ag, lb, gateway, address_pool, connection_monitor, others, last>>

(***************************************************************************)
(* Python values                                                           *)
(***************************************************************************)
None == "None"

\* None where an object or a list may stand, and the object or list itself.
Nothing == <<>>
Some(x) == <<x>>

\* Names a user can give to a sub-resource.
Names == {"a", "b"}

\* The longest collection the model lets a handler build.
MaxItems == 2

Range(s) == {s[i] : i \in DOMAIN s}

\* [x for x in s if x.name != name]
WithoutName(s, name) == SelectSeq(s, LAMBDA x : x.name # name)

\* The positions of s holding an entry called name.
Named(s, name) == {i \in DOMAIN s : s[i].name = name}

\* The first position of s at which x occurs (0 when it does not): list.index
RECURSIVE IndexFrom(_, _, _)
IndexFrom(s, x, i) ==
    IF i > Len(s) THEN 0
    ELSE IF s[i] = x THEN i
    ELSE IndexFrom(s, x, i + 1)

\* list.remove(x): drops the first occurrence of x
ListRemove(s, x) ==
    LET i == IndexFrom(s, x, 1)
    IN  IF i = 0 THEN s
        ELSE SubSeq(s, 1, i - 1) \o SubSeq(s, i + 1, Len(s))

(***************************************************************************)
(* azure.cli.core.commands.upsert_to_collection(parent, collection_name,   *)
(* obj_to_add, key_name): the first entry whose key equals the new         *)
(* object's key is removed, and the new object is appended.                *)
(***************************************************************************)
upsert_to_collection(collection, obj_to_add) ==
    LET coll  == collection
        match == Named(coll, obj_to_add.name)
    IN  IF match = {} THEN Append(coll, obj_to_add)
        ELSE LET i == CHOOSE j \in match : \A k \in match : j <= k
             IN  Append(SubSeq(coll, 1, i - 1) \o SubSeq(coll, i + 1, Len(coll)),
                        obj_to_add)

(***************************************************************************)
(* Application gateway: HTTP listeners                                     *)
(***************************************************************************)
\* _get_default_value(balancer, property_name, option_name, return_name=False):
\* the id of the only entry, an error when there is none or more than one.
get_default_id(property) ==
    IF Len(property) = 1 THEN property[1].id ELSE "CLIError"

FrontendIpNames == {"fip1", "fip2"}

\* The resource id of a sub-resource of that name.
IdOf(name) == name

create_ag_frontend_ip_configuration(item_name, public_ip_address) ==
    LET new_config == [name |-> item_name, id |-> IdOf(item_name),
                       public_ip_address |-> public_ip_address]
    IN  /\ ag' = [ag EXCEPT !.frontend_ip_configurations =
                                upsert_to_collection(@, new_config)]
        /\ last' = [op |-> "create_ag_frontend_ip_configuration", raised |-> None,
                    name |-> item_name]

ApplicationGatewayHttpListener(item_name, frontend_ip, frontend_port, host_name, ssl_cert) ==
    [name |-> item_name,
     frontend_ip_configuration |-> frontend_ip,
     frontend_port |-> frontend_port,
     host_name |-> host_name,
     require_server_name_indication |->
         IF ssl_cert # None /\ host_name # None THEN "True" ELSE None,
     protocol |-> IF ssl_cert # None THEN "https" ELSE "http",
     ssl_certificate |-> ssl_cert]

create_ag_http_listener(item_name, frontend_port, frontend_ip, host_name, ssl_cert) ==
    LET fip == IF frontend_ip = None
               THEN get_default_id(ag.frontend_ip_configurations)
               ELSE frontend_ip
        new_listener == ApplicationGatewayHttpListener(item_name, fip, frontend_port,
                                                       host_name, ssl_cert)
    IN  IF fip = "CLIError"
        THEN /\ last' = [op |-> "create_ag_http_listener", raised |-> "CLIError",
                         name |-> item_name, before |-> ag.http_listeners,
                         after |-> ag.http_listeners]
             /\ UNCHANGED ag
        ELSE /\ Len(WithoutName(ag.http_listeners, item_name)) < MaxItems
             /\ ag' = [ag EXCEPT !.http_listeners = upsert_to_collection(@, new_listener)]
             /\ last' = [op |-> "create_ag_http_listener", raised |-> None,
                         name |-> item_name, new |-> new_listener,
                         before |-> ag.http_listeners, after |-> ag'.http_listeners]

(***************************************************************************)
(* Load balancer: probes                                                   *)
(***************************************************************************)
\* The probes create_lb_probe passes to the update: every fetched probe but
\* those called item_name, field by field, then the new probe.
RECURSIVE create_lb_probe_keep(_, _)
create_lb_probe_keep(items, item_name) ==
    IF items = <<>> THEN <<>>
    ELSE LET item == Head(items)
             rest == create_lb_probe_keep(Tail(items), item_name)
         IN  IF item.name = item_name THEN rest
             ELSE <<[name |-> item.name,
                     interval_in_seconds |-> item.interval_in_seconds,
                     number_of_probes |-> item.number_of_probes,
                     port |-> item.port,
                     probe_threshold |-> item.probe_threshold,
                     protocol |-> item.protocol,
                     request_path |-> item.request_path]>> \o rest

\* A plausible slip: the probe of the same name is copied like the others.
create_lb_probe_probes_NoSkip(items, new_probe) ==
    Append(create_lb_probe_keep(items, None), new_probe)

create_lb_probe_probes(items, new_probe) ==
    Append(create_lb_probe_keep(items, new_probe.name), new_probe)

create_lb_probe(item_name, protocol, port, path, interval, threshold, probe_threshold) ==
    LET new_probe == [name |-> item_name,
                      interval_in_seconds |-> interval,
                      number_of_probes |-> threshold,
                      port |-> port,
                      probe_threshold |-> probe_threshold,
                      protocol |-> protocol,
                      request_path |-> path]
    IN  /\ Len(WithoutName(lb.probes, item_name)) < MaxItems
        /\ lb' = [lb EXCEPT !.probes = create_lb_probe_probes(@, new_probe)]
        /\ last' = [op |-> "create_lb_probe", raised |-> None,
                    name |-> item_name, new |-> new_probe,
                    before |-> lb.probes, after |-> lb'.probes]

(***************************************************************************)
(* Virtual network gateway: VPN client root certificates                   *)
(***************************************************************************)
create_vnet_gateway_root_cert(public_cert_data, cert_name) ==
    IF gateway.vpn_client_configuration = Nothing
    THEN /\ last' = [op |-> "create_vnet_gateway_root_cert", raised |-> "CLIError",
                     name |-> cert_name, before |-> <<>>, after |-> <<>>]
         /\ UNCHANGED gateway
    ELSE LET config == gateway.vpn_client_configuration[1]
             certs  == IF config.vpn_client_root_certificates = Nothing
                       THEN <<>> ELSE config.vpn_client_root_certificates[1]
             cert   == [name |-> cert_name, public_cert_data |-> public_cert_data]
             after  == upsert_to_collection(certs, cert)
         IN  /\ Len(WithoutName(certs, cert_name)) < MaxItems
             /\ gateway' = [gateway EXCEPT !.vpn_client_configuration =
                    Some([config EXCEPT !.vpn_client_root_certificates = Some(after)])]
             /\ last' = [op |-> "create_vnet_gateway_root_cert", raised |-> None,
                         name |-> cert_name, new |-> cert, before |-> certs,
                         after |-> after]

\* The gateway's point-to-site configuration is set through
\* `az network vnet-gateway update` (address prefixes), outside these handlers.
set_vpn_client_configuration ==
    /\ gateway.vpn_client_configuration = Nothing
    /\ gateway' = [gateway EXCEPT !.vpn_client_configuration =
                       Some([vpn_client_root_certificates |-> Nothing,
                             vpn_client_ipsec_policies |-> Nothing])]
    /\ last' = [op |-> "set_vpn_client_configuration", raised |-> None]

(***************************************************************************)
(* Application gateway: trusted client certificates                        *)
(***************************************************************************)
add_trusted_client_certificate(client_cert_name, client_cert_data) ==
    LET cert == [name |-> client_cert_name, data |-> client_cert_data]
    IN  /\ Len(ag.trusted_client_certificates) < MaxItems
        /\ ag' = [ag EXCEPT !.trusted_client_certificates = Append(@, cert)]
        /\ last' = [op |-> "add_trusted_client_certificate", raised |-> None,
                    name |-> client_cert_name, new |-> cert]

(***************************************************************************)
(* Load balancer backend pool: backend addresses                           *)
(***************************************************************************)
VnetName == "vnet1"
VnetId == "/virtualNetworks/vnet1"
SubnetName == "subnet1"
SubnetId == "/virtualNetworks/vnet1/subnets/subnet1"

is_valid_resource_id(rid) == rid \in {VnetId, SubnetId}

_process_vnet_name_and_id(vnet) ==
    IF vnet # None /\ ~is_valid_resource_id(vnet) THEN VnetId ELSE vnet

\* vnet + '/subnets/' + subnet; the error when no vnet is given with a subnet name
_process_subnet_name_and_id(subnet, vnet) ==
    IF subnet # None /\ ~is_valid_resource_id(subnet)
    THEN IF _process_vnet_name_and_id(vnet) = None
         THEN "UnrecognizedArgumentError"
         ELSE SubnetId
    ELSE subnet

\* The LoadBalancerBackendAddress the handler builds, or the error it raises.
LoadBalancerBackendAddress(address_name, ip_address, vnet, subnet, admin_state, api_2020_11_01) ==
    IF api_2020_11_01
    THEN IF vnet # None
         THEN [name |-> address_name,
               subnet |-> IF subnet # None
                          THEN _process_subnet_name_and_id(subnet, vnet) ELSE None,
               virtual_network |-> vnet,
               ip_address |-> ip_address,
               admin_state |-> admin_state]
         ELSE IF subnet # None /\ is_valid_resource_id(subnet)
         THEN [name |-> address_name,
               subnet |-> subnet,
               virtual_network |-> None,
               ip_address |-> ip_address,
               admin_state |-> admin_state]
         ELSE [name |-> address_name, subnet |-> "UnrecognizedArgumentError"]
    ELSE [name |-> address_name,
          subnet |-> None,
          virtual_network |-> vnet,
          ip_address |-> ip_address,
          admin_state |-> None]

add_lb_backend_address_pool_address(address_name, ip_address, vnet, subnet, admin_state, api_2020_11_01) ==
    LET new_address == LoadBalancerBackendAddress(address_name, ip_address, vnet, subnet,
                                                  admin_state, api_2020_11_01)
        addresses == IF address_pool.load_balancer_backend_addresses = Nothing
                     THEN <<>> ELSE address_pool.load_balancer_backend_addresses[1]
    IN  IF new_address.subnet = "UnrecognizedArgumentError"
        THEN /\ last' = [op |-> "add_lb_backend_address_pool_address",
                         raised |-> "UnrecognizedArgumentError",
                         name |-> address_name]
             /\ UNCHANGED address_pool
        ELSE /\ Len(addresses) < MaxItems
             /\ address_pool' = [address_pool EXCEPT !.load_balancer_backend_addresses =
                                     Some(Append(addresses, new_address))]
             /\ last' = [op |-> "add_lb_backend_address_pool_address", raised |-> None,
                         name |-> address_name, new |-> new_address]

(***************************************************************************)
(* Connection monitor (v2): endpoints, test configurations, test groups    *)
(***************************************************************************)
EndpointNames == {"e1", "e2"}
TestConfigurationNames == {"tc1"}
TestGroupNames == {"g1", "g2"}

\* The longest list of endpoints, and of names in a test group, the model builds.
MaxEndpoints == 3
MaxConfigurations == 1
MaxGroups == 2
MaxRefs == 1

_create_nw_connection_monitor_v2_endpoint(name, endpoint_resource_id, address) ==
    [name |-> name, resource_id |-> endpoint_resource_id, address |-> address]

\* The test configuration, or the error for a protocol that is none of tcp,
\* icmp, http.
_create_nw_connection_monitor_v2_test_configuration(name, protocol, tcp_port) ==
    IF protocol = "Tcp"
    THEN [name |-> name, protocol |-> protocol, tcp_port |-> tcp_port]
    ELSE IF protocol \in {"Icmp", "Http"}
    THEN [name |-> name, protocol |-> protocol, tcp_port |-> None]
    ELSE [name |-> "CLIError"]

_create_nw_connection_monitor_v2_test_group(name, disable, test_configurations, source_endpoints, destination_endpoints) ==
    [name |-> name,
     disable |-> disable,
     test_configurations |->
         [i \in DOMAIN test_configurations |-> test_configurations[i].name],
     sources |-> [i \in DOMAIN source_endpoints |-> source_endpoints[i].name],
     destinations |->
         [i \in DOMAIN destination_endpoints |-> destination_endpoints[i].name]]

\* The monitor create_nw_connection_monitor submits (its v2 shape).
_create_nw_connection_monitor_v2(endpoint_source_name, endpoint_dest_name, test_config_name, test_group_name) ==
    LET src_endpoint == _create_nw_connection_monitor_v2_endpoint(
                            endpoint_source_name, None, "10.0.0.3")
        dst_endpoint == _create_nw_connection_monitor_v2_endpoint(
                            endpoint_dest_name, None, "10.0.0.3")
        test_config  == _create_nw_connection_monitor_v2_test_configuration(
                            test_config_name, "Tcp", "80")
        test_group   == _create_nw_connection_monitor_v2_test_group(
                            test_group_name, FALSE, <<test_config>>,
                            <<src_endpoint>>, <<dst_endpoint>>)
    IN  [endpoints |-> <<src_endpoint, dst_endpoint>>,
         test_configurations |-> <<test_config>>,
         test_groups |-> <<test_group>>]

\* The lists of the monitor stay within the model's bounds.
MonitorInBounds(cm) ==
    /\ Len(cm.endpoints) <= MaxEndpoints
    /\ Len(cm.test_configurations) <= MaxConfigurations
    /\ Len(cm.test_groups) <= MaxGroups
    /\ \A i \in DOMAIN cm.test_groups :
          /\ Len(cm.test_groups[i].sources) <= MaxRefs
          /\ Len(cm.test_groups[i].destinations) <= MaxRefs
          /\ Len(cm.test_groups[i].test_configurations) <= MaxRefs

\* What an invocation on the connection monitor leaves: the monitor it
\* submits, or the error it raises before submitting anything.
MonitorCall(result) ==
    IF result.raised # None
    THEN /\ last' = [op |-> "connection_monitor", raised |-> result.raised]
         /\ UNCHANGED connection_monitor
    ELSE /\ MonitorInBounds(result.monitor)
         /\ connection_monitor' = result.monitor
         /\ last' = [op |-> "connection_monitor", raised |-> None]

Submitted(cm) == [raised |-> None, monitor |-> cm]
Raised(err) == [raised |-> err]

add_nw_connection_monitor_v2_endpoint(cm, name, address, source_test_groups, dest_test_groups) ==
    LET endpoint == [name |-> name, resource_id |-> None, address |-> address]
        refresh(test_group) ==
            [test_group EXCEPT
                !.sources = IF test_group.name \in source_test_groups
                            THEN Append(@, endpoint.name) ELSE @,
                !.destinations = IF test_group.name \in dest_test_groups
                                 THEN Append(@, endpoint.name) ELSE @]
    IN  Submitted([cm EXCEPT !.endpoints = Append(@, endpoint),
                             !.test_groups = [i \in DOMAIN @ |-> refresh(@[i])]])

\* test_groups = Nothing stands for the omitted argument (every test group).
remove_nw_connection_monitor_v2_endpoint(cm, name, test_groups) ==
    LET new_endpoints == WithoutName(cm.endpoints, name)
        refresh(test_group) ==
            IF test_groups = Nothing \/ test_group.name \in test_groups[1]
            THEN [test_group EXCEPT !.sources = ListRemove(@, name),
                                    !.destinations = ListRemove(@, name)]
            ELSE test_group
    IN  Submitted([cm EXCEPT !.endpoints = new_endpoints,
                             !.test_groups = [i \in DOMAIN @ |-> refresh(@[i])]])

add_nw_connection_monitor_v2_test_configuration(cm, name, protocol, test_groups, tcp_port) ==
    LET new_test_config ==
            _create_nw_connection_monitor_v2_test_configuration(name, protocol, tcp_port)
        refresh(test_group) ==
            IF test_group.name \in test_groups
            THEN [test_group EXCEPT !.test_configurations = Append(@, new_test_config.name)]
            ELSE test_group
    IN  IF new_test_config.name = "CLIError" THEN Raised("CLIError")
        ELSE Submitted([cm EXCEPT !.test_configurations = Append(@, new_test_config),
                                  !.test_groups = [i \in DOMAIN @ |-> refresh(@[i])]])

\* list.remove(name) raises ValueError when a chosen test group does not list
\* the test configuration.
remove_nw_connection_monitor_v2_test_configuration(cm, name, test_groups) ==
    LET new_test_configurations == WithoutName(cm.test_configurations, name)
        chosen(test_group) == test_groups = Nothing \/ test_group.name \in test_groups[1]
        refresh(test_group) ==
            IF chosen(test_group)
            THEN [test_group EXCEPT !.test_configurations = ListRemove(@, name)]
            ELSE test_group
    IN  IF \E i \in DOMAIN cm.test_groups :
              /\ chosen(cm.test_groups[i])
              /\ name \notin Range(cm.test_groups[i].test_configurations)
        THEN Raised("ValueError")
        ELSE Submitted([cm EXCEPT !.test_configurations = new_test_configurations,
                                  !.test_groups = [i \in DOMAIN @ |-> refresh(@[i])]])

add_nw_connection_monitor_v2_test_group(cm, name, endpoint_source_name, endpoint_dest_name, test_config_name, disable, endpoint_source_address, endpoint_dest_address, test_config_protocol, test_config_tcp_port) ==
    LET new_test_group == [name |-> name, disable |-> disable,
                           test_configurations |-> <<test_config_name>>,
                           sources |-> <<endpoint_source_name>>,
                           destinations |-> <<endpoint_dest_name>>]
        src_endpoints ==
            IF endpoint_source_address # None
            THEN <<_create_nw_connection_monitor_v2_endpoint(
                       endpoint_source_name, None, endpoint_source_address)>>
            ELSE <<>>
        dst_endpoints ==
            IF endpoint_dest_address # None
            THEN <<_create_nw_connection_monitor_v2_endpoint(
                       endpoint_dest_name, None, endpoint_dest_address)>>
            ELSE <<>>
        any_requirement == test_config_protocol # None \/ test_config_tcp_port # None
        test_config == _create_nw_connection_monitor_v2_test_configuration(
                           test_config_name, test_config_protocol, test_config_tcp_port)
    IN  IF any_requirement /\ test_config.name = "CLIError" THEN Raised("CLIError")
        ELSE Submitted(
                [endpoints |-> cm.endpoints \o src_endpoints \o dst_endpoints,
                 test_configurations |->
                     IF any_requirement THEN Append(cm.test_configurations, test_config)
                     ELSE cm.test_configurations,
                 test_groups |-> Append(cm.test_groups, new_test_group)])

\* The last test group of that name, Nothing when there is none.
RECURSIVE LastNamed(_, _, _)
LastNamed(test_groups, name, found) ==
    IF test_groups = <<>> THEN found
    ELSE LastNamed(Tail(test_groups), name,
                   IF Head(test_groups).name = name THEN Some(Head(test_groups)) ELSE found)

remove_nw_connection_monitor_v2_test_group(cm, name) ==
    LET new_test_groups == WithoutName(cm.test_groups, name)
        removed == LastNamed(cm.test_groups, name, Nothing)
        removed_test_group == removed[1]
        referenced(e) ==
            \E i \in DOMAIN new_test_groups :
                \/ e \in Range(new_test_groups[i].sources)
                \/ e \in Range(new_test_groups[i].destinations)
        removed_endpoints ==
            {e \in Range(removed_test_group.sources \o removed_test_group.destinations) :
                ~referenced(e)}
        removed_test_configurations ==
            {c \in Range(removed_test_group.test_configurations) :
                ~\E i \in DOMAIN new_test_groups :
                    c \in Range(new_test_groups[i].test_configurations)}
    IN  IF removed = Nothing THEN Raised("CLIError")
        ELSE Submitted(
                [endpoints |-> SelectSeq(cm.endpoints,
                                         LAMBDA e : e.name \notin removed_endpoints),
                 test_configurations |->
                     SelectSeq(cm.test_configurations,
                               LAMBDA c : c.name \notin removed_test_configurations),
                 test_groups |-> new_test_groups])

(***************************************************************************)
(* Load balancer: load-balancing rules                                     *)
(***************************************************************************)
RuleNames == {"r1", "r2"}

\* An argument the caller left out; Python binds the parameter's default.
Omitted == "<omitted>"
Default(arg, default) == IF arg = Omitted THEN default ELSE arg

\* azure.cli.core.commands.get_property(items, name): the id of the item of
\* that name, an error when there is none.
get_property(items, name) ==
    IF Named(items, name) = {} THEN "CLIError" ELSE IdOf(name)

\* _get_default_value(balancer, property_name, option_name, return_name=True)
get_default_name(property) ==
    IF Len(property) = 1 THEN property[1].name ELSE "CLIError"

\* update_context(instance).set_param(prop, value): '' clears the property,
\* None leaves it, any other value is assigned.
set_param(current, value) ==
    IF value = "" THEN None
    ELSE IF value # None THEN value
    ELSE current

\* backend_pools_name is Nothing (None) or Some(list of names).
PoolIds(pools, backend_pools_name) ==
    [i \in DOMAIN backend_pools_name |-> get_property(pools, backend_pools_name[i])]

\* The rule create_lb_rule builds: [raised, rule].
LoadBalancingRule(parent, item_name, a) ==
    LET frontend_ip_name ==
            IF a.frontend_ip_name = None
            THEN get_default_name(parent.frontend_ip_configurations)
            ELSE a.frontend_ip_name
        pool_name_1 ==
            IF a.backend_address_pool_name = None /\ a.backend_pools_name # Nothing
            THEN a.backend_pools_name[1][1]
            ELSE a.backend_address_pool_name
        backend_address_pool_name ==
            IF pool_name_1 = None
            THEN get_default_name(parent.backend_address_pools)
            ELSE pool_name_1
        frontend == get_property(parent.frontend_ip_configurations, frontend_ip_name)
        pool == get_property(parent.backend_address_pools, backend_address_pool_name)
        probe == IF a.probe_name # None /\ a.probe_name # ""
                 THEN get_property(parent.probes, a.probe_name) ELSE None
        pools == IF a.backend_pools_name # Nothing /\ a.backend_pools_name[1] # <<>>
                 THEN PoolIds(parent.backend_address_pools, a.backend_pools_name[1])
                 ELSE <<>>
        failed == \/ "CLIError" \in {frontend_ip_name, backend_address_pool_name,
                                      frontend, pool, probe}
                  \/ "CLIError" \in Range(pools)
    IN  [raised |-> IF failed THEN "CLIError" ELSE None,
         rule |-> [name |-> item_name,
                   protocol |-> a.protocol,
                   frontend_port |-> a.frontend_port,
                   backend_port |-> a.backend_port,
                   frontend_ip_configuration |-> frontend,
                   backend_address_pool |-> IF pools # <<>> THEN None ELSE pool,
                   backend_address_pools |-> IF pools # <<>> THEN Some(pools) ELSE Nothing,
                   probe |-> probe,
                   load_distribution |-> a.load_distribution,
                   enable_floating_ip |-> a.floating_ip,
                   idle_timeout_in_minutes |-> a.idle_timeout,
                   enable_tcp_reset |-> a.enable_tcp_reset,
                   disable_outbound_snat |-> a.disable_outbound_snat]]

\* The parameters of create_lb_rule, from what the caller gives.
create_lb_rule_params(given) ==
    [protocol |-> given.protocol,
     frontend_port |-> given.frontend_port,
     backend_port |-> given.backend_port,
     frontend_ip_name |-> Default(given.frontend_ip_name, None),
     backend_address_pool_name |-> Default(given.backend_address_pool_name, None),
     probe_name |-> Default(given.probe_name, None),
     load_distribution |-> Default(given.load_distribution, "default"),
     floating_ip |-> Default(given.floating_ip, None),
     idle_timeout |-> Default(given.idle_timeout, None),
     enable_tcp_reset |-> Default(given.enable_tcp_reset, None),
     disable_outbound_snat |-> Default(given.disable_outbound_snat, None),
     backend_pools_name |-> given.backend_pools_name]

create_lb_rule(item_name, given) ==
    LET built == LoadBalancingRule(lb, item_name, create_lb_rule_params(given))
    IN  IF built.raised # None
        THEN /\ last' = [op |-> "create_lb_rule", raised |-> built.raised,
                         name |-> item_name]
             /\ UNCHANGED lb
        ELSE /\ lb' = [lb EXCEPT !.load_balancing_rules =
                                     upsert_to_collection(@, built.rule)]
             /\ last' = [op |-> "create_lb_rule", raised |-> None, name |-> item_name]

\* The parameters of set_lb_rule, from what the caller gives.
set_lb_rule_params(given) ==
    [protocol |-> Default(given.protocol, None),
     frontend_port |-> Default(given.frontend_port, None),
     frontend_ip_name |-> Default(given.frontend_ip_name, None),
     backend_port |-> Default(given.backend_port, None),
     backend_address_pool_name |-> Default(given.backend_address_pool_name, None),
     probe_name |-> Default(given.probe_name, None),
     load_distribution |-> Default(given.load_distribution, "default"),
     floating_ip |-> Default(given.floating_ip, None),
     idle_timeout |-> Default(given.idle_timeout, None),
     enable_tcp_reset |-> Default(given.enable_tcp_reset, None),
     disable_outbound_snat |-> Default(given.disable_outbound_snat, None),
     backend_pools_name |-> given.backend_pools_name]

\* The rule as set_lb_rule leaves it: [raised, rule].
set_lb_rule_instance(instance, parent, a, api_2021_02_01) ==
    LET frontend ==
            IF a.frontend_ip_name # None
            THEN get_property(parent.frontend_ip_configurations, a.frontend_ip_name)
            ELSE instance.frontend_ip_configuration
        pool_1 ==
            IF a.backend_address_pool_name # None
            THEN get_property(parent.backend_address_pools, a.backend_address_pool_name)
            ELSE instance.backend_address_pool
        pools_1 ==
            IF /\ a.backend_address_pool_name # None
               /\ api_2021_02_01
               /\ (a.backend_pools_name = Nothing \/ a.backend_pools_name[1] = <<>>)
            THEN Some(<<pool_1>>)
            ELSE instance.backend_address_pools
        pools_2 ==
            IF a.backend_pools_name # Nothing
            THEN Some(PoolIds(parent.backend_address_pools, a.backend_pools_name[1]))
            ELSE pools_1
        pool_2 == IF a.backend_pools_name # Nothing THEN None ELSE pool_1
        probe ==
            IF a.probe_name = "" THEN None
            ELSE IF a.probe_name # None THEN get_property(parent.probes, a.probe_name)
            ELSE instance.probe
        failed == \/ "CLIError" \in {frontend, pool_1, probe}
                  \/ (a.backend_pools_name # Nothing /\ "CLIError" \in Range(pools_2[1]))
    IN  [raised |-> IF failed THEN "CLIError" ELSE None,
         rule |-> [instance EXCEPT
                     !.protocol = set_param(@, a.protocol),
                     !.frontend_port = set_param(@, a.frontend_port),
                     !.backend_port = set_param(@, a.backend_port),
                     !.idle_timeout_in_minutes = set_param(@, a.idle_timeout),
                     !.load_distribution = set_param(@, a.load_distribution),
                     !.disable_outbound_snat = set_param(@, a.disable_outbound_snat),
                     !.enable_tcp_reset = set_param(@, a.enable_tcp_reset),
                     !.enable_floating_ip = set_param(@, a.floating_ip),
                     !.frontend_ip_configuration = frontend,
                     !.backend_address_pool = pool_2,
                     !.backend_address_pools = pools_2,
                     !.probe = probe]]

\* The generic update of a child: the load balancer is fetched, the rule of
\* that name is handed to set_lb_rule, and the load balancer is submitted.
set_lb_rule(item_name, given, api_2021_02_01) ==
    LET found == Named(lb.load_balancing_rules, item_name)
        i == CHOOSE j \in found : \A k \in found : j <= k
        edited == set_lb_rule_instance(lb.load_balancing_rules[i], lb,
                                       set_lb_rule_params(given), api_2021_02_01)
    IN  IF found = {}
        THEN /\ last' = [op |-> "set_lb_rule", raised |-> "CLIError", name |-> item_name]
             /\ UNCHANGED lb
        ELSE IF edited.raised # None
        THEN /\ last' = [op |-> "set_lb_rule", raised |-> edited.raised,
                         name |-> item_name]
             /\ UNCHANGED lb
        ELSE /\ lb' = [lb EXCEPT !.load_balancing_rules[i] = edited.rule]
             /\ last' = [op |-> "set_lb_rule", raised |-> None, name |-> item_name,
                         given |-> given]

(***************************************************************************)
(* Outcome of a handler: the remote create, update and delete calls it     *)
(* issued, in order, and the error it raised (None when it returned)       *)
(***************************************************************************)
Outcome(calls, raised) == [calls |-> calls, raised |-> raised]

\* bool(x) of an optional string: None and '' are false.
bool(x) == x # None /\ x # ""

\* str.lower() on the names the model uses.
lower(s) ==
    CASE s = "Standard" -> "standard"
      [] s = "Basic" -> "basic"
      [] s = "Gateway" -> "gateway"
      [] s = "WestUS" -> "westus"
      [] s = "IpConfig1" -> "ipconfig1"
      [] OTHER -> s

\* The orders in which Python may iterate over a set.
Orderings(S) == {s \in [1..Cardinality(S) -> S] : Range(s) = S}

(***************************************************************************)
(* Load balancer backend pools: create                                     *)
(***************************************************************************)
\* Values of --backend-addresses-config-file, which the handler type-checks.
PyNone == [type |-> "NoneType"]
PyList(items) == [type |-> "list", items |-> items]
PyDict(value) == [type |-> "dict", value |-> value]
PyStr == [type |-> "str"]

isinstance(x, type) == x.type = type

\* Truth value of a parsed config file: None and [] are false.
truth(x) ==
    CASE x.type = "NoneType" -> FALSE
      [] x.type = "list" -> x.items # <<>>
      [] OTHER -> TRUE

\* cmd.supported_api_version(min_api=..., max_api=...); API versions are
\* dates, written yyyymmdd.
ApiVersions == {20191201, 20200501, 20210201}
supported_min_api(api, min_api) == api >= min_api
supported_max_api(api, max_api) == api <= max_api

\* One backend address under API 2020-11-01 and later: [raised, address].
create_lb_backend_address_pool_address(addr, admin_state) ==
    IF "virtual_network" \in DOMAIN addr
    THEN IF ~({"name", "ip_address"} \subseteq DOMAIN addr)
         THEN [raised |-> "UnrecognizedArgumentError"]
         ELSE LET subnet == IF "subnet" \in DOMAIN addr
                            THEN _process_subnet_name_and_id(addr.subnet,
                                                             addr.virtual_network)
                            ELSE None
              IN  IF subnet = "UnrecognizedArgumentError"
                  THEN [raised |-> "UnrecognizedArgumentError"]
                  ELSE [raised |-> None,
                        address |->
                            [name |-> addr.name,
                             virtual_network |->
                                 _process_vnet_name_and_id(addr.virtual_network),
                             subnet |-> subnet,
                             ip_address |-> addr.ip_address,
                             admin_state |-> admin_state]]
    ELSE IF "subnet" \in DOMAIN addr /\ is_valid_resource_id(addr.subnet)
    THEN IF ~({"name", "ip_address"} \subseteq DOMAIN addr)
         THEN [raised |-> "UnrecognizedArgumentError"]
         ELSE [raised |-> None,
               address |-> [name |-> addr.name,
                            virtual_network |-> None,
                            subnet |-> addr.subnet,
                            ip_address |-> addr.ip_address,
                            admin_state |-> admin_state]]
    ELSE [raised |-> "UnrecognizedArgumentError"]

\* One backend address under the API versions before 2020-11-01.
create_lb_backend_address_pool_address_old(addr) ==
    IF ~({"name", "virtual_network", "ip_address"} \subseteq DOMAIN addr)
    THEN [raised |-> "UnrecognizedArgumentError"]
    ELSE [raised |-> None,
          address |-> [name |-> addr.name,
                       virtual_network |-> _process_vnet_name_and_id(addr.virtual_network),
                       subnet |-> None,
                       ip_address |-> addr.ip_address,
                       admin_state |-> None]]

\* The argument checks the handler makes before it fetches the load balancer.
create_lb_backend_address_pool_usage(backend_addresses, backend_addresses_config_file) ==
    IF backend_addresses # <<>> /\ truth(backend_addresses_config_file)
    THEN "CLIError"
    ELSE IF truth(backend_addresses_config_file)
    THEN IF ~isinstance(backend_addresses_config_file, "list")
         THEN "CLIError"
         ELSE IF \E i \in DOMAIN backend_addresses_config_file.items :
                    ~isinstance(backend_addresses_config_file.items[i], "dict")
         THEN "CLIError"
         ELSE None
    ELSE None

\* The handler from the fetch of the load balancer on.  backend_addresses is
\* a list of dicts, <<>> when the argument is None.
create_lb_backend_address_pool_fetched(parent, backend_address_pool_name, vnet, backend_addresses, backend_addresses_config_file, admin_state, drain_period, api) ==
    IF supported_max_api(api, 20200301) \/ lower(parent.sku.name) = "basic"
    THEN LET new_pool == [name |-> backend_address_pool_name]
         IN  Outcome(<<[call |-> "load_balancers.begin_create_or_update",
                        parameters |->
                            [parent EXCEPT !.backend_address_pools =
                                 upsert_to_collection(@, new_pool)]]>>,
                     None)
    ELSE LET given == backend_addresses \o
                          (IF truth(backend_addresses_config_file)
                           THEN [i \in DOMAIN backend_addresses_config_file.items |->
                                     backend_addresses_config_file.items[i].value]
                           ELSE <<>>)
             addresses_pool ==
                 [i \in DOMAIN given |->
                     IF "virtual_network" \notin DOMAIN given[i] /\ bool(vnet)
                     THEN given[i] @@ [virtual_network |-> vnet]
                     ELSE given[i]]
             built == [i \in DOMAIN addresses_pool |->
                          IF supported_min_api(api, 20201101)
                          THEN create_lb_backend_address_pool_address(addresses_pool[i],
                                                                      admin_state)
                          ELSE create_lb_backend_address_pool_address_old(addresses_pool[i])]
             new_addresses == IF addresses_pool = <<>> THEN Nothing
                              ELSE Some([i \in DOMAIN built |-> built[i].address])
             new_pool == [name |-> backend_address_pool_name,
                          load_balancer_backend_addresses |-> new_addresses,
                          drain_period_in_seconds |-> drain_period,
                          tunnel_interfaces |->
                              IF supported_min_api(api, 20210201)
                                 /\ lower(parent.sku.name) = "gateway"
                              THEN Some(<<[type |-> "Internal", protocol |-> "VXLAN",
                                           identifier |-> 900]>>)
                              ELSE Nothing]
         IN  IF \E i \in DOMAIN built : built[i].raised # None
             THEN Outcome(<<>>, "UnrecognizedArgumentError")
             ELSE Outcome(<<[call |->
                                 "load_balancer_backend_address_pools.begin_create_or_update",
                             backend_address_pool_name |-> backend_address_pool_name,
                             parameters |-> new_pool]>>,
                          None)

create_lb_backend_address_pool(parent, backend_address_pool_name, vnet, backend_addresses, backend_addresses_config_file, admin_state, drain_period, api) ==
    IF create_lb_backend_address_pool_usage(backend_addresses,
                                            backend_addresses_config_file) # None
    THEN Outcome(<<>>, "CLIError")
    ELSE create_lb_backend_address_pool_fetched(parent, backend_address_pool_name, vnet,
                                                backend_addresses,
                                                backend_addresses_config_file,
                                                admin_state, drain_period, api)

\* The load balancer after the service has carried out the calls.
RECURSIVE LoadBalancerAfter(_, _)
LoadBalancerAfter(parent, calls) ==
    IF calls = <<>> THEN parent
    ELSE LET c == Head(calls)
         IN  LoadBalancerAfter(
                 IF c.call = "load_balancers.begin_create_or_update"
                 THEN c.parameters
                 ELSE [parent EXCEPT !.backend_address_pools =
                           upsert_to_collection(@, c.parameters)],
                 Tail(calls))

(***************************************************************************)
(* Network watchers                                                        *)
(***************************************************************************)
Locations == {"westus", "eastus"}
MaxWatchers == 2

\* client.create_or_update(resource_group_name, '{}-watcher'.format(location), ...)
WatcherName(location) ==
    CASE location = "westus" -> "westus-watcher"
      [] location = "eastus" -> "eastus-watcher"
      [] location = "WestUS" -> "WestUS-watcher"

_create_network_watchers_CheckAfterCreate(resource_group_name, locations, tags) ==
    Outcome([i \in DOMAIN locations |->
                 [call |-> "create_or_update",
                  resource_group_name |-> resource_group_name,
                  name |-> WatcherName(locations[i]),
                  parameters |-> [location |-> locations[i], tags |-> tags]]],
            IF resource_group_name = None THEN "CLIError" ELSE None)

_create_network_watchers(resource_group_name, locations, tags) ==
    IF resource_group_name = None
    THEN Outcome(<<>>, "CLIError")
    ELSE Outcome([i \in DOMAIN locations |->
                      [call |-> "create_or_update",
                       resource_group_name |-> resource_group_name,
                       name |-> WatcherName(locations[i]),
                       parameters |-> [location |-> locations[i], tags |-> tags]]],
                 None)

_update_network_watchers(existing_watchers, tags) ==
    Outcome([i \in DOMAIN existing_watchers |->
                 [call |-> "create_or_update",
                  resource_group_name |-> existing_watchers[i].resource_group,
                  name |-> existing_watchers[i].name,
                  parameters |->
                      [location |-> existing_watchers[i].location,
                       tags |-> IF tags = None THEN existing_watchers[i].tags
                                ELSE tags]]],
            None)

_delete_network_watchers(existing_watchers) ==
    Outcome([i \in DOMAIN existing_watchers |->
                 [call |-> "begin_delete",
                  resource_group_name |-> existing_watchers[i].resource_group,
                  name |-> existing_watchers[i].name]],
            None)

\* set(locations) - set(watcher.location for watcher in existing_watchers)
nonenabled_set(watcher_list, locations) ==
    Range(locations) \ {w.location : w \in {x \in Range(watcher_list) :
                            x.location \in {lower(l) : l \in Range(locations)}}}

\* nonenabled_regions is the list Python makes of nonenabled_set, in the order
\* it iterates over the set.
configure_network_watcher(watcher_list, locations, resource_group_name, enabled, tags, nonenabled_regions) ==
    LET locations_list == [i \in DOMAIN locations |-> lower(locations[i])]
        existing_watchers ==
            SelectSeq(watcher_list, LAMBDA w : w.location \in Range(locations_list))
    IN  IF enabled = None
        THEN _update_network_watchers(existing_watchers, tags)
        ELSE IF enabled = "True"
        THEN LET created == _create_network_watchers(resource_group_name,
                                                     nonenabled_regions, tags)
             IN  IF created.raised # None
                 THEN created
                 ELSE Outcome(created.calls \o
                                  _update_network_watchers(existing_watchers, tags).calls,
                              None)
        ELSE IF tags # None
        THEN Outcome(<<>>, "CLIError")
        ELSE _delete_network_watchers(existing_watchers)

\* The watchers after the service has carried out the calls.
RECURSIVE WatchersAfter(_, _)
WatchersAfter(watcher_list, calls) ==
    IF calls = <<>> THEN watcher_list
    ELSE LET c == Head(calls)
             same(w) == w.resource_group = c.resource_group_name /\ w.name = c.name
             watcher == [resource_group |-> c.resource_group_name, name |-> c.name,
                         location |-> c.parameters.location, tags |-> c.parameters.tags]
         IN  WatchersAfter(
                 IF c.call = "begin_delete"
                 THEN SelectSeq(watcher_list, LAMBDA w : ~same(w))
                 ELSE IF \E i \in DOMAIN watcher_list : same(watcher_list[i])
                 THEN [i \in DOMAIN watcher_list |->
                          IF same(watcher_list[i]) THEN watcher ELSE watcher_list[i]]
                 ELSE Append(watcher_list, watcher),
                 Tail(calls))

(***************************************************************************)
(* Flow logs                                                               *)
(***************************************************************************)
FlowLogNames == {"fl1"}

\* get_arm_resource_by_id finds the workspace ws1 and no other.
get_arm_resource_by_id(resource_id) ==
    IF resource_id = "ws1"
    THEN Some([id |-> resource_id, location |-> "westus",
               properties |-> [customerId |-> "customer1"]])
    ELSE Nothing

\* sum(map(bool, targets))
sum_bool(targets) == Cardinality({i \in DOMAIN targets : bool(targets[i])})

create_nw_flow_log_target(nsg, vnet, subnet, nic) ==
    IF subnet # None THEN subnet
    ELSE IF vnet # None /\ subnet = None THEN vnet
    ELSE IF nic # None THEN nic
    ELSE nsg

create_nw_flow_log(flow_log_name, nsg, vnet, subnet, nic, retention, log_format, log_version, traffic_analytics_workspace, traffic_analytics_interval, traffic_analytics_enabled) ==
    IF sum_bool(<<vnet, subnet, nic, nsg>>) = 0
    THEN Outcome(<<>>, "RequiredArgumentMissingError")
    ELSE IF sum_bool(<<vnet, nic, nsg>>) > 1
    THEN Outcome(<<>>, "MutuallyExclusiveArgumentError")
    ELSE LET workspace == IF traffic_analytics_workspace # None
                          THEN get_arm_resource_by_id(traffic_analytics_workspace)
                          ELSE Nothing
             flow_log ==
                 [location |-> "westus",
                  target_resource_id |-> create_nw_flow_log_target(nsg, vnet, subnet, nic),
                  storage_id |-> "sa1",
                  enabled |-> "True",
                  tags |-> None,
                  retention_policy |->
                      IF retention > 0
                      THEN Some([days |-> retention, enabled |-> retention > 0])
                      ELSE Nothing,
                  format |->
                      IF log_format # None \/ log_version # None
                      THEN Some([type |-> log_format, version |-> log_version])
                      ELSE Nothing,
                  flow_analytics_configuration |->
                      IF workspace # Nothing
                      THEN Some([enabled |-> traffic_analytics_enabled,
                                 workspace_id |-> workspace[1].properties.customerId,
                                 workspace_region |-> workspace[1].location,
                                 workspace_resource_id |-> workspace[1].id,
                                 traffic_analytics_interval |-> traffic_analytics_interval])
                      ELSE Nothing]
         IN  IF traffic_analytics_workspace # None /\ workspace = Nothing
             THEN Outcome(<<>>, "CLIError")
             ELSE Outcome(<<[call |-> "begin_create_or_update",
                             flow_log_name |-> flow_log_name,
                             parameters |-> flow_log]>>,
                          None)

\* The flow logs after the service has carried out the calls.
RECURSIVE FlowLogsAfter(_, _)
FlowLogsAfter(logs, calls) ==
    IF calls = <<>> THEN logs
    ELSE FlowLogsAfter([logs EXCEPT ![Head(calls).flow_log_name] =
                            Some(Head(calls).parameters)],
                       Tail(calls))

(***************************************************************************)
(* Virtual hubs and virtual routers                                        *)
(***************************************************************************)
HubNames == {"hub1", "hub2"}

\* A remote call on the hub of that name; the service rejects the calls in fails.
HubCall(method, name, parameters, fails) ==
    [call |-> method, name |-> name, parameters |-> parameters, ok |-> method \notin fails]

\* The exception a rejected call raises.
ErrorOf(c) ==
    CASE c.call = "routeserver.Create" -> "HttpResponseError(routeserver.Create)"
      [] c.call = "routeserver.Delete" -> "HttpResponseError(routeserver.Delete)"
      [] c.call = "virtual_hubs.begin_create_or_update" ->
             "HttpResponseError(virtual_hubs.begin_create_or_update)"
      [] c.call = "virtual_hubs.begin_delete" ->
             "HttpResponseError(virtual_hubs.begin_delete)"
      [] c.call = "virtual_hub_ip_configuration.begin_create_or_update" ->
             "HttpResponseError(virtual_hub_ip_configuration.begin_create_or_update)"
      [] c.call = "virtual_hub_ip_configuration.begin_delete" ->
             "HttpResponseError(virtual_hub_ip_configuration.begin_delete)"
      [] c.call = "virtual_routers.begin_create_or_update" ->
             "HttpResponseError(virtual_routers.begin_create_or_update)"

create_virtual_hub_NoRecovery(hubs, virtual_hub_name, hosted_subnet, public_ip_address, fails) ==
    LET create == HubCall("routeserver.Create", virtual_hub_name,
                          [sku |-> "Standard"], fails)
        ip_create == HubCall("virtual_hub_ip_configuration.begin_create_or_update",
                             virtual_hub_name,
                             [name |-> "Default", subnet |-> hosted_subnet,
                              public_ip_address |-> public_ip_address], fails)
    IN  IF hubs[virtual_hub_name] # Nothing THEN Outcome(<<>>, "CLIError")
        ELSE IF ~create.ok THEN Outcome(<<create>>, ErrorOf(create))
        ELSE IF ip_create.ok THEN Outcome(<<create, ip_create>>, None)
        ELSE Outcome(<<create, ip_create>>, ErrorOf(ip_create))

create_virtual_hub(hubs, virtual_hub_name, hosted_subnet, public_ip_address, fails) ==
    LET create == HubCall("routeserver.Create", virtual_hub_name,
                          [sku |-> "Standard"], fails)
        ip_create == HubCall("virtual_hub_ip_configuration.begin_create_or_update",
                             virtual_hub_name,
                             [name |-> "Default", subnet |-> hosted_subnet,
                              public_ip_address |-> public_ip_address], fails)
        ip_delete == HubCall("virtual_hub_ip_configuration.begin_delete",
                             virtual_hub_name, [name |-> "Default"], fails)
        delete == HubCall("routeserver.Delete", virtual_hub_name, Nothing, fails)
    IN  IF hubs[virtual_hub_name] # Nothing THEN Outcome(<<>>, "CLIError")
        ELSE IF ~create.ok THEN Outcome(<<create>>, ErrorOf(create))
        ELSE IF ip_create.ok THEN Outcome(<<create, ip_create>>, None)
        \* except Exception as ex: the HttpResponseError of begin_delete is passed over
        ELSE IF ~delete.ok
        THEN Outcome(<<create, ip_create, ip_delete, delete>>, ErrorOf(delete))
        ELSE Outcome(<<create, ip_create, ip_delete, delete>>, ErrorOf(ip_create))

delete_virtual_hub(hubs, virtual_hub_name) ==
    IF hubs[virtual_hub_name] = Nothing
    THEN Outcome(<<>>, "HttpResponseError(virtual_hub_ip_configuration.list)")
    ELSE Outcome((IF hubs[virtual_hub_name][1].ip_configurations # <<>>
                  THEN <<HubCall("virtual_hub_ip_configuration.begin_delete",
                                 virtual_hub_name,
                                 [name |-> hubs[virtual_hub_name][1].ip_configurations[1].name],
                                 {})>>
                  ELSE <<>>)
                 \o <<HubCall("routeserver.Delete", virtual_hub_name, Nothing, {})>>,
                 None)

create_virtual_router(hubs, virtual_router_name, hosted_gateway, hosted_subnet, fails) ==
    LET virtual_hub_name == virtual_router_name
        router == HubCall("virtual_routers.begin_create_or_update", virtual_router_name,
                          [hosted_gateway |-> hosted_gateway, hosted_subnet |-> None],
                          fails)
        create == HubCall("virtual_hubs.begin_create_or_update", virtual_hub_name,
                          [sku |-> "Standard"], fails)
        ip_create == HubCall("virtual_hub_ip_configuration.begin_create_or_update",
                             virtual_hub_name,
                             [name |-> "Default", subnet |-> hosted_subnet,
                              public_ip_address |-> None], fails)
        ip_delete == HubCall("virtual_hub_ip_configuration.begin_delete",
                             virtual_hub_name, [name |-> "Default"], fails)
        delete == HubCall("virtual_hubs.begin_delete", virtual_hub_name, Nothing, fails)
    IN  IF hubs[virtual_hub_name] # Nothing THEN Outcome(<<>>, "CLIError")
        ELSE IF hosted_gateway # None
        THEN Outcome(<<router>>, IF router.ok THEN None ELSE ErrorOf(router))
        ELSE IF ~create.ok THEN Outcome(<<create>>, ErrorOf(create))
        ELSE IF ip_create.ok THEN Outcome(<<create, ip_create>>, None)
        ELSE IF ~ip_delete.ok
        THEN Outcome(<<create, ip_create, ip_delete>>, ErrorOf(ip_delete))
        ELSE IF ~delete.ok
        THEN Outcome(<<create, ip_create, ip_delete, delete>>, ErrorOf(delete))
        ELSE Outcome(<<create, ip_create, ip_delete, delete>>, ErrorOf(ip_create))

\* The hubs after the service has carried out the calls it did not reject.
RECURSIVE HubsAfter(_, _)
HubsAfter(hubs, calls) ==
    IF calls = <<>> THEN hubs
    ELSE LET c == Head(calls)
             hub == hubs[c.name]
         IN  HubsAfter(
                 IF ~c.ok THEN hubs
                 ELSE IF c.call \in {"routeserver.Create",
                                     "virtual_hubs.begin_create_or_update"}
                 THEN [hubs EXCEPT ![c.name] =
                          Some([sku |-> c.parameters.sku, ip_configurations |-> <<>>])]
                 ELSE IF c.call \in {"routeserver.Delete", "virtual_hubs.begin_delete"}
                 THEN [hubs EXCEPT ![c.name] = Nothing]
                 ELSE IF c.call = "virtual_hub_ip_configuration.begin_create_or_update"
                 THEN IF hub = Nothing THEN hubs
                      ELSE [hubs EXCEPT ![c.name] =
                               Some([hub[1] EXCEPT !.ip_configurations =
                                         <<c.parameters>>])]
                 ELSE IF c.call = "virtual_hub_ip_configuration.begin_delete"
                 THEN IF hub = Nothing THEN hubs
                      ELSE [hubs EXCEPT ![c.name] =
                               Some([hub[1] EXCEPT !.ip_configurations = <<>>])]
                 ELSE hubs,
                 Tail(calls))

\* The old-style virtual routers after the calls.
RECURSIVE RoutersAfter(_, _)
RoutersAfter(routers, calls) ==
    IF calls = <<>> THEN routers
    ELSE RoutersAfter(
             IF Head(calls).ok /\ Head(calls).call = "virtual_routers.begin_create_or_update"
             THEN [routers EXCEPT ![Head(calls).name] = Some(Head(calls).parameters)]
             ELSE routers,
             Tail(calls))

(***************************************************************************)
(* Long-running operations and no_wait                                     *)
(***************************************************************************)
\* azure.cli.core.util.sdk_no_wait(no_wait, func, ...): func submits the
\* resource and hands back a poller, which polls unless no_wait is set.
sdk_no_wait(no_wait, parameters) ==
    [polling |-> ~no_wait, parameters |-> parameters]

\* azure.cli.core.util.find_child_item(parent, item_name, path, key_path)
find_child_item(collection, item_name) ==
    IF Named(collection, item_name) = {} THEN Nothing
    ELSE Some(collection[CHOOSE i \in Named(collection, item_name) : TRUE])

\* What a handler hands back: the poller, or a value read from the result of
\* the completed operation.
ReturnsPoller(poller) == [raised |-> None, returns |-> "poller", poller |-> poller]
ReturnsResult(poller) == [raised |-> None, returns |-> "result", poller |-> poller]
Raises(error) == [raised |-> error]

create_ag_rewrite_rule_set_AlwaysWaits(parent, item_name, no_wait) ==
    ReturnsResult(sdk_no_wait(no_wait,
                              [parent EXCEPT !.rewrite_rule_sets =
                                   upsert_to_collection(@, [name |-> item_name])]))

create_ag_rewrite_rule_set(parent, item_name, no_wait) ==
    LET new_set == [name |-> item_name]
        edited == [parent EXCEPT !.rewrite_rule_sets = upsert_to_collection(@, new_set)]
    IN  IF no_wait
        THEN ReturnsPoller(sdk_no_wait(no_wait, edited))
        ELSE ReturnsResult(sdk_no_wait(no_wait, edited))

\* find_child_item(parent, item_name, path='rewrite_rule_sets', key_path='name')
create_ag_rewrite_rule_set_result(parent, item_name) ==
    find_child_item(parent.rewrite_rule_sets, item_name)

IpsecPolicies == {"policy1", "policy2"}

add_vnet_gateway_ipsec_policy(instance, new_policy, no_wait) ==
    IF instance.vpn_client_configuration = Nothing
    THEN Raises("CLIError")
    ELSE LET config == instance.vpn_client_configuration[1]
             policies == IF config.vpn_client_ipsec_policies # Nothing
                            /\ config.vpn_client_ipsec_policies[1] # <<>>
                         THEN Append(config.vpn_client_ipsec_policies[1], new_policy)
                         ELSE <<new_policy>>
         IN  ReturnsPoller(sdk_no_wait(no_wait,
                 [instance EXCEPT !.vpn_client_configuration =
                      Some([config EXCEPT !.vpn_client_ipsec_policies = Some(policies)])]))

clear_vnet_gateway_ipsec_policies(instance, no_wait) ==
    IF instance.vpn_client_configuration = Nothing
    THEN Raises("CLIError")
    ELSE LET edited == [instance EXCEPT !.vpn_client_configuration =
                            Some([instance.vpn_client_configuration[1]
                                      EXCEPT !.vpn_client_ipsec_policies = Nothing])]
         IN  IF no_wait
             THEN ReturnsPoller(sdk_no_wait(no_wait, edited))
             ELSE ReturnsResult(sdk_no_wait(no_wait, edited))

\* LongRunningOperation(cmd.cli_ctx)(poller).vpn_client_configuration.vpn_client_ipsec_policies
clear_vnet_gateway_ipsec_policies_result(result) ==
    result.vpn_client_configuration[1].vpn_client_ipsec_policies

\* An invocation of a handler on the resource (the application gateway or the
\* virtual network gateway).  The service takes one operation on a resource
\* at a time.  The handler hands back the poller at once, or blocks until the
\* operation has completed.
Invoke(op, resource, name, no_wait, out) ==
    IF out.raised # None
    THEN /\ last' = [op |-> op, raised |-> out.raised]
         /\ UNCHANGED <<call, operation>>
    ELSE IF operation[resource].status = "InProgress"
    THEN /\ last' = [op |-> op, raised |-> "HttpResponseError"]
         /\ UNCHANGED <<call, operation>>
    ELSE /\ operation' = [operation EXCEPT ![resource] =
                              [status |-> "InProgress", result |-> out.poller.parameters]]
         /\ IF out.returns = "poller"
            THEN /\ last' = [op |-> op, raised |-> None, name |-> name,
                             no_wait |-> no_wait, returned |-> "poller",
                             status |-> "InProgress", value |-> Nothing]
                 /\ UNCHANGED call
            ELSE /\ call' = Some([op |-> op, resource |-> resource, name |-> name,
                                  no_wait |-> no_wait])
                 /\ UNCHANGED last

\* The service completes the operation on the resource: its result.
OperationResult(resource) == operation[resource].result

\* The blocked handler resumes once the operation has completed, and hands
\* back the value it reads from the result.
Resume(value) ==
    /\ last' = [op |-> call[1].op, raised |-> None, name |-> call[1].name,
                no_wait |-> call[1].no_wait, returned |-> "result",
                status |-> operation[call[1].resource].status, value |-> value]
    /\ call' = Nothing
    /\ UNCHANGED operation

(***************************************************************************)
(* DNS: the SOA record                                                     *)
(***************************************************************************)
\* The default of the minimum_ttl parameter of update_dns_soa_record.
minimum_ttl_default == 3600

\* The value a parameter is bound to: the argument (Some(value)), or the
\* parameter's default when the caller left the argument out (Nothing).
Bind(arg, default) == IF arg = Nothing THEN default ELSE arg

\* Python's `value or current` on an optional string: None and '' are false.
or_str(value, current) ==
    IF value # Nothing /\ value[1] # "" THEN value[1] ELSE current

\* Python's `value or current` on an optional integer: None and 0 are false.
or_int(value, current) ==
    IF value # Nothing /\ value[1] # 0 THEN value[1] ELSE current

update_dns_soa_record_params(given) ==
    [host          |-> Bind(given.host, Nothing),
     email         |-> Bind(given.email, Nothing),
     serial_number |-> Bind(given.serial_number, Nothing),
     refresh_time  |-> Bind(given.refresh_time, Nothing),
     retry_time    |-> Bind(given.retry_time, Nothing),
     expire_time   |-> Bind(given.expire_time, Nothing),
     minimum_ttl   |-> Bind(given.minimum_ttl, Some(minimum_ttl_default)),
     if_none_match |-> given.if_none_match]

update_dns_soa_record_record(record, a) ==
    [host          |-> or_str(a.host, record.host),
     email         |-> or_str(a.email, record.email),
     serial_number |-> or_int(a.serial_number, record.serial_number),
     refresh_time  |-> or_int(a.refresh_time, record.refresh_time),
     retry_time    |-> or_int(a.retry_time, record.retry_time),
     expire_time   |-> or_int(a.expire_time, record.expire_time),
     minimum_ttl   |-> or_int(a.minimum_ttl, record.minimum_ttl)]

\* _add_record(record_set, record, record_type, is_list=False)
_add_record(record_set, record, record_type) ==
    [record_set EXCEPT !.soa_record = record]

\* The record set _add_save_record submits, or the error of the service: with
\* if_none_match='*' it refuses to overwrite an existing record set.
_add_save_record(record, record_type, if_none_match) ==
    IF record_sets[record_type] # Nothing /\ if_none_match
    THEN [raised |-> "HttpResponseError"]
    ELSE [raised |-> None,
          record_set |->
              _add_record(IF record_sets[record_type] = Nothing
                          THEN [ttl |-> 3600, soa_record |-> Nothing]
                          ELSE record_sets[record_type][1],
                          record, record_type)]

update_dns_soa_record(given) ==
    LET a == update_dns_soa_record_params(given)
        record_set == record_sets["soa"][1]
        record == update_dns_soa_record_record(record_set.soa_record, a)
        saved == _add_save_record(record, "soa", a.if_none_match)
    IN  IF saved.raised # None
        THEN /\ last' = [op |-> "update_dns_soa_record", raised |-> saved.raised]
             /\ UNCHANGED record_sets
        ELSE /\ record_sets' = [record_sets EXCEPT !["soa"] = Some(saved.record_set)]
             /\ last' = [op |-> "update_dns_soa_record", raised |-> None, given |-> given]

(***************************************************************************)
(* Web application firewall policy: managed rule sets                      *)
(***************************************************************************)
RuleSetTypes == {"OWASP", "Microsoft_BotManagerRuleSet"}
RuleSetVersions == {"3.0", "3.1"}
RuleGroupNames == {"REQUEST-942"}

MaxRuleSets == 2
MaxOverrides == 1
MaxRules == 2

\* The first of a set of positions, 0 when there is none.
FirstIn(positions) ==
    IF positions = {} THEN 0
    ELSE CHOOSE i \in positions : \A j \in positions : i <= j

\* list.append(None) on rule_group_overrides leaves a null entry.
NullOverride == [rule_group_name |-> None, rules |-> Nothing]

add_waf_managed_rule_set(instance, rule_set_type, rule_set_version, rule_group_name, rules) ==
    LET managed_rule_overrides == IF rules = Nothing THEN <<>> ELSE rules[1]
        rule_group_override ==
            IF rule_group_name # None
            THEN Some([rule_group_name |-> rule_group_name,
                       rules |-> Some(managed_rule_overrides)])
            ELSE Nothing
        new_managed_rule_set == [rule_set_type |-> rule_set_type,
                                 rule_set_version |-> rule_set_version,
                                 rule_group_overrides |->
                                     IF rule_group_override = Nothing THEN <<>>
                                     ELSE <<rule_group_override[1]>>]
        sets == instance.managed_rule_sets
        i == FirstIn({k \in DOMAIN sets :
                         /\ sets[k].rule_set_type = rule_set_type
                         /\ sets[k].rule_set_version = rule_set_version})
        overrides == sets[i].rule_group_overrides
        j == FirstIn({k \in DOMAIN overrides :
                         overrides[k].rule_group_name = rule_group_name})
    IN  IF i = 0
        THEN [instance EXCEPT !.managed_rule_sets = Append(sets, new_managed_rule_set)]
        ELSE IF j # 0
        THEN [instance EXCEPT !.managed_rule_sets[i].rule_group_overrides[j].rules =
                  Some((IF @ = Nothing THEN <<>> ELSE @[1]) \o managed_rule_overrides)]
        ELSE IF rule_group_override # Nothing
        THEN [instance EXCEPT !.managed_rule_sets[i].rule_group_overrides =
                  Append(@, rule_group_override[1])]
        ELSE instance

\* The loop of update_waf_managed_rule_set from position i on:
\* [sets, updated_rule_set].
RECURSIVE update_waf_managed_rule_set_loop(_, _, _, _, _, _)
update_waf_managed_rule_set_loop(sets, i, rule_set_type, rule_set_version, rule_group_name, managed_rule_overrides) ==
    IF i > Len(sets) THEN [sets |-> sets, updated_rule_set |-> Nothing]
    ELSE LET rule_set == sets[i]
             j == FirstIn({k \in DOMAIN rule_set.rule_group_overrides :
                              rule_set.rule_group_overrides[k].rule_group_name
                                  = rule_group_name})
             rule_group_override ==
                 IF managed_rule_overrides # Nothing
                 THEN [rule_group_name |-> rule_group_name,
                       rules |-> managed_rule_overrides]
                 ELSE NullOverride
         IN  IF rule_set.rule_set_type = rule_set_type
                /\ rule_set.rule_set_version # rule_set_version
             THEN [sets |-> sets, updated_rule_set |-> Some(rule_set)]
             ELSE IF rule_set.rule_set_type = rule_set_type
                     /\ rule_set.rule_set_version = rule_set_version
             THEN IF rule_group_name = None
                  THEN [sets |-> sets, updated_rule_set |-> Some(rule_set)]
                  ELSE update_waf_managed_rule_set_loop(
                           IF j # 0
                           THEN [sets EXCEPT ![i].rule_group_overrides[j].rules =
                                     managed_rule_overrides]
                           ELSE [sets EXCEPT ![i].rule_group_overrides =
                                     Append(@, rule_group_override)],
                           i + 1, rule_set_type, rule_set_version, rule_group_name,
                           managed_rule_overrides)
             ELSE update_waf_managed_rule_set_loop(sets, i + 1, rule_set_type,
                                                   rule_set_version, rule_group_name,
                                                   managed_rule_overrides)

update_waf_managed_rule_set(instance, rule_set_type, rule_set_version, rule_group_name, rules) ==
    LET managed_rule_overrides ==
            IF rules # Nothing /\ rules[1] # <<>> THEN rules ELSE Nothing
        rule_group_overrides ==
            IF managed_rule_overrides # Nothing
            THEN <<[rule_group_name |-> rule_group_name, rules |-> managed_rule_overrides]>>
            ELSE <<>>
        new_managed_rule_set == [rule_set_type |-> rule_set_type,
                                 rule_set_version |-> rule_set_version,
                                 rule_group_overrides |-> rule_group_overrides]
        looped == update_waf_managed_rule_set_loop(instance.managed_rule_sets, 1,
                                                   rule_set_type, rule_set_version,
                                                   rule_group_name, managed_rule_overrides)
    IN  IF looped.updated_rule_set # Nothing
        THEN [instance EXCEPT !.managed_rule_sets =
                  Append(SelectSeq(looped.sets,
                                   LAMBDA rule_set : rule_set # looped.updated_rule_set[1]),
                         new_managed_rule_set)]
        ELSE [instance EXCEPT !.managed_rule_sets = looped.sets]

\* The loop of remove_waf_managed_rule_set from position i on:
\* [raised, sets, delete_rule_set].
RECURSIVE remove_waf_managed_rule_set_loop(_, _, _, _, _)
remove_waf_managed_rule_set_loop(sets, i, rule_set_type, rule_set_version, rule_group_name) ==
    IF i > Len(sets) THEN [raised |-> None, sets |-> sets, delete_rule_set |-> Nothing]
    ELSE LET rule_set == sets[i]
             j == FirstIn({k \in DOMAIN rule_set.rule_group_overrides :
                              rule_set.rule_group_overrides[k].rule_group_name
                                  = rule_group_name})
             new_rule_group_overrides ==
                 SubSeq(rule_set.rule_group_overrides, 1, j - 1)
                 \o SubSeq(rule_set.rule_group_overrides, j + 1,
                           Len(rule_set.rule_group_overrides))
         IN  IF rule_set.rule_set_type = rule_set_type
                \/ rule_set.rule_set_version = rule_set_version
             THEN IF rule_group_name = None
                  THEN [raised |-> None, sets |-> sets, delete_rule_set |-> Some(rule_set)]
                  ELSE IF j = 0
                  THEN [raised |-> "ResourceNotFoundError", sets |-> sets,
                        delete_rule_set |-> Nothing]
                  ELSE remove_waf_managed_rule_set_loop(
                           [sets EXCEPT ![i].rule_group_overrides =
                                new_rule_group_overrides],
                           i + 1, rule_set_type, rule_set_version, rule_group_name)
             ELSE remove_waf_managed_rule_set_loop(sets, i + 1, rule_set_type,
                                                   rule_set_version, rule_group_name)

\* [raised, instance]
remove_waf_managed_rule_set(instance, rule_set_type, rule_set_version, rule_group_name) ==
    LET looped == remove_waf_managed_rule_set_loop(instance.managed_rule_sets, 1,
                                                   rule_set_type, rule_set_version,
                                                   rule_group_name)
    IN  [raised |-> looped.raised,
         instance |->
             IF looped.delete_rule_set # Nothing
             THEN [instance EXCEPT !.managed_rule_sets =
                       SelectSeq(looped.sets,
                                 LAMBDA rule_set : rule_set # looped.delete_rule_set[1])]
             ELSE [instance EXCEPT !.managed_rule_sets = looped.sets]]

\* The policy stays within the bounds of the model.
PolicyInBounds(instance) ==
    /\ Len(instance.managed_rule_sets) <= MaxRuleSets
    /\ \A i \in DOMAIN instance.managed_rule_sets :
          LET overrides == instance.managed_rule_sets[i].rule_group_overrides
          IN  /\ Len(overrides) <= MaxOverrides
              /\ \A j \in DOMAIN overrides :
                    overrides[j].rules # Nothing => Len(overrides[j].rules[1]) <= MaxRules

(***************************************************************************)
(* DNS: adding and removing records                                        *)
(***************************************************************************)
_type_to_property_name(key) ==
    CASE key = "cname" -> "cname_record"
      [] key = "mx" -> "mx_records"
      [] key = "soa" -> "soa_record"

\* The exchange names the model uses, with their characters.
Exchanges == {"ab", "ba"}

chars(s) ==
    CASE s = "ab" -> <<"a", "b">>
      [] s = "ba" -> <<"b", "a">>
      [] OTHER -> <<>>

\* The preferences a caller gives on the command line, and int() of them.
Preferences == {"0", "10"}

int(s) ==
    CASE s = "0" -> 0
      [] s = "10" -> 10

\* The values in the __dict__ of a record: integers and strings.
PyInt(value) == [type |-> "int", value |-> value]
PyString(value) == [type |-> "str", value |-> value]

\* `not x`: 0 and '' are false.
not(x) ==
    CASE x.type = "int" -> x.value = 0
      [] x.type = "str" -> x.value = ""

\* str(x)
str(x) ==
    CASE x.type = "str" -> x.value
      [] x.type = "int" /\ x.value = 0 -> "0"
      [] x.type = "int" /\ x.value = 10 -> "10"

\* Counter(s) of a string: how often each character occurs.
Counter(s) ==
    [c \in Range(chars(s)) |-> Cardinality({i \in DOMAIN chars(s) : chars(s)[i] = c})]

\* lists_match(l1, l2): Counter raises TypeError on an integer.
lists_match(l1, l2) ==
    IF l1.type = "int" \/ l2.type = "int" THEN FALSE
    ELSE Counter(l1.value) = Counter(l2.value)

MxRecord(preference, exchange) == [preference |-> preference, exchange |-> exchange]
CnameRecord(cname) == [cname |-> cname]

\* record.__dict__
dict(record) ==
    [key \in DOMAIN record |->
        IF key = "preference" THEN PyInt(record[key]) ELSE PyString(record[key])]

dict_matches_filter(d, filter_dict) ==
    \A key \in DOMAIN filter_dict :
        \/ not(filter_dict[key])
        \/ str(filter_dict[key]) = str(d[key])
        \/ lists_match(filter_dict[key], d[key])

_check_mx_record_exist(record, exist_list) ==
    \E i \in DOMAIN exist_list :
        /\ exist_list[i].preference = record.preference
        /\ exist_list[i].exchange = record.exchange

\* RecordSet(ttl=3600) of a record type: no records.
RecordSet(record_type) ==
    IF record_type = "mx" THEN [ttl |-> 3600, mx_records |-> Nothing]
    ELSE [ttl |-> 3600, cname_record |-> Nothing]

\* _add_record(record_set, record, record_type, is_list): a list of records
\* is Some(list), a single record Some(record), None is Nothing.
_add_record_to(record_set, record, record_type, is_list) ==
    LET record_property == _type_to_property_name(record_type)
        record_list == IF record_set[record_property] = Nothing THEN <<>>
                       ELSE record_set[record_property][1]
    IN  IF is_list
        THEN [record_set EXCEPT ![record_property] =
                  IF _check_mx_record_exist(record, record_list)
                  THEN Some(record_list)
                  ELSE Some(Append(record_list, record))]
        ELSE [record_set EXCEPT ![record_property] = Some(record)]

\* _add_save_record with the ttl of the caller: the record set it passes to
\* create_or_update.
_add_save_record_ttl(record, record_type, is_list, ttl) ==
    LET fetched == IF record_sets[record_type] = Nothing
                   THEN RecordSet(record_type)
                   ELSE record_sets[record_type][1]
        record_set == IF ttl # Nothing THEN [fetched EXCEPT !.ttl = ttl[1]]
                      ELSE fetched
    IN  _add_record_to(record_set, record, record_type, is_list)

add_dns_mx_record(preference, exchange) ==
    LET record == MxRecord(int(preference), exchange)
    IN  /\ record_sets' = [record_sets EXCEPT !["mx"] =
                               Some(_add_save_record_ttl(record, "mx", TRUE, Some(3600)))]
        /\ last' = [op |-> "add_dns_mx_record", raised |-> None]

add_dns_cname_record(cname) ==
    LET record == CnameRecord(cname)
    IN  /\ record_sets' = [record_sets EXCEPT !["cname"] =
                               Some(_add_save_record_ttl(record, "cname", FALSE,
                                                         Some(3600)))]
        /\ last' = [op |-> "add_dns_cname_record", raised |-> None]

\* _remove_record with keep_empty_record_set ignored.
_remove_record_AlwaysDeletes(record, record_type, keep_empty_record_set, is_list) ==
    LET record_property == _type_to_property_name(record_type)
        fetched == record_sets[record_type][1]
        record_list == fetched[record_property]
        keep_list == SelectSeq(record_list[1],
                               LAMBDA r : ~dict_matches_filter(dict(r), dict(record)))
        record_set == [fetched EXCEPT ![record_property] =
                           IF is_list THEN Some(keep_list) ELSE Nothing]
        records_remaining == IF is_list THEN Len(keep_list)
                             ELSE IF record_set[record_property] # Nothing THEN 1 ELSE 0
    IN  IF record_sets[record_type] = Nothing
        THEN [raised |-> "HttpResponseError", call |-> None]
        ELSE IF is_list /\ record_list = Nothing
        THEN [raised |-> "TypeError", call |-> None]
        ELSE IF is_list /\ Len(keep_list) = Len(record_list[1])
        THEN [raised |-> "CLIError", call |-> None]
        ELSE IF records_remaining = 0
        THEN [raised |-> None, call |-> "delete"]
        ELSE [raised |-> None, call |-> "create_or_update", record_set |-> record_set]

\* _remove_record: the error it raises, or the call it issues: a delete of the
\* record set, or a create_or_update with the record set it edited.
_remove_record(record, record_type, keep_empty_record_set, is_list) ==
    LET record_property == _type_to_property_name(record_type)
        fetched == record_sets[record_type][1]
        record_list == fetched[record_property]
        keep_list == SelectSeq(record_list[1],
                               LAMBDA r : ~dict_matches_filter(dict(r), dict(record)))
        record_set == [fetched EXCEPT ![record_property] =
                           IF is_list THEN Some(keep_list) ELSE Nothing]
        records_remaining == IF is_list THEN Len(keep_list)
                             ELSE IF record_set[record_property] # Nothing THEN 1 ELSE 0
    IN  IF record_sets[record_type] = Nothing
        THEN [raised |-> "HttpResponseError", call |-> None]
        ELSE IF is_list /\ record_list = Nothing
        THEN [raised |-> "TypeError", call |-> None]
        ELSE IF is_list /\ Len(keep_list) = Len(record_list[1])
        THEN [raised |-> "CLIError", call |-> None]
        ELSE IF records_remaining = 0 /\ ~keep_empty_record_set
        THEN [raised |-> None, call |-> "delete"]
        ELSE [raised |-> None, call |-> "create_or_update", record_set |-> record_set]

\* The record sets of the zone after the call of a handler.
RecordSetsAfter(record_type, out) ==
    IF out.call = "delete" THEN [record_sets EXCEPT ![record_type] = Nothing]
    ELSE IF out.call = "create_or_update"
    THEN [record_sets EXCEPT ![record_type] = Some(out.record_set)]
    ELSE record_sets

remove_dns_mx_record(preference, exchange, keep_empty_record_set) ==
    LET record == MxRecord(int(preference), exchange)
        out == _remove_record(record, "mx", keep_empty_record_set, TRUE)
    IN  /\ record_sets' = RecordSetsAfter("mx", out)
        /\ last' = [op |-> "remove_dns_mx_record", raised |-> out.raised,
                    call |-> out.call, record |-> record,
                    keep_empty_record_set |-> keep_empty_record_set]

remove_dns_cname_record(cname, keep_empty_record_set) ==
    LET record == CnameRecord(cname)
        out == _remove_record(record, "cname", keep_empty_record_set, FALSE)
    IN  /\ record_sets' = RecordSetsAfter("cname", out)
        /\ last' = [op |-> "remove_dns_cname_record", raised |-> out.raised,
                    call |-> out.call, record |-> record,
                    keep_empty_record_set |-> keep_empty_record_set]

(***************************************************************************)
(* Invocations that interleave on one parent resource                      *)
(*                                                                         *)
(* A handler fetches the parent, edits its own copy and submits the whole  *)
(* copy.  Nothing in the handler ties the submission to the version it     *)
(* fetched, and the service stores what it is sent.  An invocation is at   *)
(* pc "idle", then "fetched" (it holds its copy), then "done".             *)
(***************************************************************************)
Clients == {"client1", "client2"}

\* upsert_to_collection(parent, collection_name, obj_to_add, key_name) for a
\* key other than the name: the first entry with the key of the new object
\* is removed and the new object is appended.
upsert_to_collection_key(collection, obj_to_add, key_name) ==
    LET match == {i \in DOMAIN collection :
                     collection[i][key_name] = obj_to_add[key_name]}
    IN  IF match = {} THEN Append(collection, obj_to_add)
        ELSE LET i == FirstIn(match)
             IN  Append(SubSeq(collection, 1, i - 1)
                        \o SubSeq(collection, i + 1, Len(collection)),
                        obj_to_add)

\* create_ag_http_listener after its get: the error it raises, or the
\* application gateway it passes to begin_create_or_update.
create_ag_http_listener_instance(fetched, item_name, frontend_port, frontend_ip, host_name, ssl_cert) ==
    LET fip == IF frontend_ip = None
               THEN get_default_id(fetched.frontend_ip_configurations)
               ELSE frontend_ip
        new_listener == ApplicationGatewayHttpListener(item_name, fip, frontend_port,
                                                       host_name, ssl_cert)
    IN  IF fip = "CLIError"
        THEN [raised |-> "CLIError"]
        ELSE [raised |-> None,
              instance |-> [fetched EXCEPT !.http_listeners =
                                               upsert_to_collection(@, new_listener)]]

\* The position of the IP configuration _get_nic_ip_config returns, 0 where
\* it raises CLIError.
_get_nic_ip_config(instance, name) ==
    IF Len(instance.ip_configurations) > 0
    THEN FirstIn({i \in DOMAIN instance.ip_configurations :
                     lower(instance.ip_configurations[i].name) = lower(name)})
    ELSE 0

\* add_nic_ip_config_address_pool after its get: the error it raises, or the
\* network interface it passes to begin_create_or_update.
add_nic_ip_config_address_pool_instance(fetched, ip_config_name, backend_address_pool, load_balancer_name, application_gateway_name) ==
    LET i == _get_nic_ip_config(fetched, ip_config_name)
        BackendAddressPool == [id |-> backend_address_pool]
    IN  IF i = 0
        THEN [raised |-> "CLIError"]
        ELSE [raised |-> None,
              instance |->
                  IF bool(load_balancer_name)
                  THEN [fetched EXCEPT
                            !.ip_configurations[i].load_balancer_backend_address_pools =
                                upsert_to_collection_key(@, BackendAddressPool, "id")]
                  ELSE IF bool(application_gateway_name)
                  THEN [fetched EXCEPT
                            !.ip_configurations[i].application_gateway_backend_address_pools =
                                upsert_to_collection_key(@, BackendAddressPool, "id")]
                  ELSE fetched]

\* The clients other than this one that hold a fetched copy.
Fetching(client) ==
    {other \in Clients \ {client} : invocations[other].pc = "fetched"}

\* client.get(...): the invocation takes its copy of the parent.
Get(client, op, given, fetched) ==
    /\ invocations[client].pc = "idle"
    /\ invocations' = [invocations EXCEPT ![client] =
                           [pc |-> "fetched", op |-> op, given |-> given,
                            fetched |-> fetched]]
    /\ UNCHANGED last

\* The end of an invocation: what it was given, how it ended and the
\* invocations that held a fetched copy when it submitted.
Done(client, raised) ==
    /\ invocations' = [invocations EXCEPT ![client] =
                           [pc |-> "done", op |-> @.op, given |-> @.given,
                            raised |-> raised, overlapped |-> Fetching(client)]]
    /\ last' = [op |-> invocations[client].op, raised |-> raised]

(***************************************************************************)
(* Initial state                                                           *)
(***************************************************************************)
NoCall == [op |-> "none", raised |-> None]

Init ==
    /\ ag = [http_listeners |-> <<>>,
             frontend_ip_configurations |->
                 <<[name |-> "fip1", id |-> IdOf("fip1"), public_ip_address |-> "pip1"]>>,
             trusted_client_certificates |-> <<>>,
             rewrite_rule_sets |-> <<>>]
    /\ lb = [probes |-> <<>>,
             frontend_ip_configurations |-> <<[name |-> "fe1"]>>,
             backend_address_pools |-> <<[name |-> "bp1"], [name |-> "bp2"]>>,
             load_balancing_rules |-> <<>>,
             sku |-> [name |-> "Standard"]]
    /\ gateway = [vpn_client_configuration |-> Nothing]
    /\ address_pool = [load_balancer_backend_addresses |-> Nothing]
    /\ connection_monitor = _create_nw_connection_monitor_v2("e1", "e2", "tc1", "g1")
    /\ watchers = <<>>
    /\ flow_logs = [name \in FlowLogNames |-> Nothing]
    /\ virtual_hubs = [name \in HubNames |-> Nothing]
    /\ virtual_routers = [name \in HubNames |-> Nothing]
    /\ call = Nothing
    /\ operation = [resource \in {"application_gateway", "virtual_network_gateway"} |->
                        [status |-> "None", result |-> Nothing]]
    /\ record_sets =
           [record_type \in {"soa", "mx", "cname"} |->
               IF record_type = "soa"
               THEN Some([ttl |-> 3600,
                          soa_record |-> [host |-> "ns1", email |-> "admin1",
                                          serial_number |-> 1, refresh_time |-> 3600,
                                          retry_time |-> 300, expire_time |-> 2419200,
                                          minimum_ttl |-> 300]])
               ELSE Nothing]
    /\ waf_policy =
           [managed_rule_sets |-> <<[rule_set_type |-> "OWASP", rule_set_version |-> "3.0",
                                     rule_group_overrides |-> <<>>]>>]
    /\ network_interface =
           [ip_configurations |->
                  <<[name |-> "ipconfig1",
                     load_balancer_backend_address_pools |-> <<>>,
                     application_gateway_backend_address_pools |-> <<>>]>>]
    /\ invocations = [client \in Clients |-> [pc |-> "idle"]]
    /\ last = NoCall

(***************************************************************************)
(* Creating named sub-resources                                            *)
(***************************************************************************)
CreateListener ==
    /\ \E item_name \in Names,
          h \in {<<None, None, None>>, <<"fip2", "host", "cert">>} :
          create_ag_http_listener(item_name, "port80", h[1], h[2], h[3])
    /\ UNCHANGED <<lb, gateway, address_pool, connection_monitor, others>>

CreateProbe ==
    /\ \E item_name \in Names,
          p \in {<<"Tcp", "80", None, None>>, <<"Http", "8080", "/", "5">>} :
          create_lb_probe(item_name, p[1], p[2], p[3], p[4], None, None)
    /\ UNCHANGED <<ag, gateway, address_pool, connection_monitor, others>>

CreateRootCert ==
    /\ \E cert_name \in Names, public_cert_data \in {"data1", "data2"} :
          create_vnet_gateway_root_cert(public_cert_data, cert_name)
    /\ UNCHANGED <<ag, lb, address_pool, connection_monitor, others>>

SetVpnClientConfiguration ==
    /\ set_vpn_client_configuration
    /\ UNCHANGED <<ag, lb, address_pool, connection_monitor, others>>

CreateFrontendIp ==
    /\ \E item_name \in FrontendIpNames :
          create_ag_frontend_ip_configuration(item_name, "pip1")
    /\ UNCHANGED <<lb, gateway, address_pool, connection_monitor, others>>

NextCreate ==
    \/ CreateListener \/ CreateFrontendIp \/ CreateProbe
    \/ CreateRootCert \/ SetVpnClientConfiguration

SpecCreate == Init /\ [][NextCreate]_vars

(***************************************************************************)
(* Adding to a collection                                                  *)
(***************************************************************************)
AddTrustedClientCertificate ==
    /\ \E client_cert_name \in Names, client_cert_data \in {"data1", "data2"} :
          add_trusted_client_certificate(client_cert_name, client_cert_data)
    /\ UNCHANGED <<lb, gateway, address_pool, connection_monitor, others>>

AddBackendAddress ==
    /\ \E address_name \in Names, vnet \in {None, VnetName},
          subnet \in {None, SubnetName, SubnetId}, api_2020_11_01 \in BOOLEAN :
          add_lb_backend_address_pool_address(address_name, "10.0.0.4", vnet, subnet,
                                              None, api_2020_11_01)
    /\ UNCHANGED <<ag, lb, gateway, connection_monitor, others>>

AddEndpoint ==
    /\ \E name \in EndpointNames, address \in {"10.0.0.3"},
          source_test_groups \in SUBSET TestGroupNames,
          dest_test_groups \in SUBSET TestGroupNames :
          MonitorCall(
                      add_nw_connection_monitor_v2_endpoint(
                          connection_monitor, name, address,
                          source_test_groups, dest_test_groups))
    /\ UNCHANGED <<ag, lb, gateway, address_pool, others>>

NextAdd == AddTrustedClientCertificate \/ AddBackendAddress \/ AddEndpoint

SpecAdd == Init /\ [][NextAdd]_vars

(***************************************************************************)
(* Editing a connection monitor                                            *)
(***************************************************************************)
\* The test_groups argument: omitted, or a list of test group names.
TestGroupsArg == {Nothing} \cup {Some(g) : g \in SUBSET TestGroupNames}

RemoveEndpoint ==
    /\ \E name \in EndpointNames, test_groups \in TestGroupsArg :
          MonitorCall(
                      remove_nw_connection_monitor_v2_endpoint(
                          connection_monitor, name, test_groups))
    /\ UNCHANGED <<ag, lb, gateway, address_pool, others>>

AddTestConfiguration ==
    /\ \E name \in TestConfigurationNames, protocol \in {None, "Tcp"},
          test_groups \in SUBSET TestGroupNames :
          MonitorCall(
                      add_nw_connection_monitor_v2_test_configuration(
                          connection_monitor, name, protocol, test_groups, "80"))
    /\ UNCHANGED <<ag, lb, gateway, address_pool, others>>

RemoveTestConfiguration ==
    /\ \E name \in TestConfigurationNames, test_groups \in TestGroupsArg :
          MonitorCall(
                      remove_nw_connection_monitor_v2_test_configuration(
                          connection_monitor, name, test_groups))
    /\ UNCHANGED <<ag, lb, gateway, address_pool, others>>

AddTestGroup ==
    /\ \E name \in TestGroupNames,
          endpoint_source_name \in EndpointNames, endpoint_dest_name \in EndpointNames,
          test_config_name \in TestConfigurationNames,
          endpoint_source_address \in {None, "10.0.0.3"},
          endpoint_dest_address \in {None, "10.0.0.3"},
          tc \in {<<None, None>>, <<None, "80">>, <<"Tcp", "80">>} :
          MonitorCall(
                      add_nw_connection_monitor_v2_test_group(
                          connection_monitor, name, endpoint_source_name,
                          endpoint_dest_name, test_config_name, FALSE,
                          endpoint_source_address, endpoint_dest_address,
                          tc[1], tc[2]))
    /\ UNCHANGED <<ag, lb, gateway, address_pool, others>>

RemoveTestGroup ==
    /\ \E name \in TestGroupNames :
          MonitorCall(
                      remove_nw_connection_monitor_v2_test_group(connection_monitor, name))
    /\ UNCHANGED <<ag, lb, gateway, address_pool, others>>

NextMonitor ==
    \/ AddEndpoint \/ RemoveEndpoint
    \/ AddTestConfiguration \/ RemoveTestConfiguration
    \/ AddTestGroup \/ RemoveTestGroup

SpecMonitor == Init /\ [][NextMonitor]_vars

(***************************************************************************)
(* Creating and updating load-balancing rules                              *)
(***************************************************************************)
\* What a caller gives to create_lb_rule.
CreateRuleGiven ==
    {[protocol |-> "Tcp", frontend_port |-> "80", backend_port |-> "80",
      frontend_ip_name |-> Omitted, backend_address_pool_name |-> "bp1",
      probe_name |-> Omitted, load_distribution |-> ld, floating_ip |-> Omitted,
      idle_timeout |-> "4", enable_tcp_reset |-> Omitted,
      disable_outbound_snat |-> Omitted, backend_pools_name |-> Nothing] :
        ld \in {Omitted, "SourceIP"}}

\* set_lb_rule called with no argument but the rule's name.
NothingGiven ==
    [protocol |-> Omitted, frontend_port |-> Omitted, backend_port |-> Omitted,
     frontend_ip_name |-> Omitted, backend_address_pool_name |-> Omitted,
     probe_name |-> Omitted, load_distribution |-> Omitted, floating_ip |-> Omitted,
     idle_timeout |-> Omitted, enable_tcp_reset |-> Omitted,
     disable_outbound_snat |-> Omitted, backend_pools_name |-> Nothing]

\* What a caller gives to set_lb_rule: nothing, or one of these edits.
SetRuleGiven ==
    {NothingGiven,
     [NothingGiven EXCEPT !.protocol = "Udp", !.frontend_port = "443",
                          !.backend_port = "8443"],
     [NothingGiven EXCEPT !.idle_timeout = "10", !.floating_ip = "True",
                          !.enable_tcp_reset = "True", !.disable_outbound_snat = "True"],
     [NothingGiven EXCEPT !.load_distribution = "SourceIPProtocol"],
     [NothingGiven EXCEPT !.frontend_ip_name = "fe1"],
     [NothingGiven EXCEPT !.frontend_ip_name = "fe9"],
     [NothingGiven EXCEPT !.backend_address_pool_name = "bp2"],
     [NothingGiven EXCEPT !.backend_pools_name = Some(<<"bp1", "bp2">>)],
     [NothingGiven EXCEPT !.probe_name = "a"],
     [NothingGiven EXCEPT !.probe_name = ""]}

CreateLbRule ==
    /\ \E item_name \in RuleNames, given \in CreateRuleGiven :
          create_lb_rule(item_name, given)
    /\ UNCHANGED <<ag, gateway, address_pool, connection_monitor, others>>

SetLbRule ==
    /\ \E item_name \in {"r1"}, given \in SetRuleGiven, api_2021_02_01 \in BOOLEAN :
          set_lb_rule(item_name, given, api_2021_02_01)
    /\ UNCHANGED <<ag, gateway, address_pool, connection_monitor, others>>

CreateOneProbe ==
    /\ lb.probes = <<>>
    /\ create_lb_probe("a", "Tcp", "80", None, None, None, None)
    /\ UNCHANGED <<ag, gateway, address_pool, connection_monitor, others>>

NextLbRule == CreateLbRule \/ SetLbRule \/ CreateOneProbe

SpecLbRule == Init /\ [][NextLbRule]_vars

(***************************************************************************)
(* Handlers that check their arguments                                     *)
(***************************************************************************)
\* The backend addresses a caller passes: complete, with a subnet id only,
\* and with neither a virtual network nor a subnet.
BackendAddresses ==
    { <<>>,
      <<[name |-> "addr1", ip_address |-> "10.0.0.4", virtual_network |-> VnetName,
         subnet |-> SubnetName]>>,
      <<[name |-> "addr1", ip_address |-> "10.0.0.4", subnet |-> SubnetId]>>,
      <<[name |-> "addr1", ip_address |-> "10.0.0.4"]>> }

BackendAddressesConfigFiles ==
    { PyNone,
      PyList(<<PyDict([name |-> "addr2", ip_address |-> "10.0.0.5",
                       virtual_network |-> VnetId])>>),
      PyList(<<PyStr>>),
      PyDict([name |-> "addr2"]) }

CreateBackendAddressPool ==
    /\ \E backend_address_pool_name \in {"bp3"}, vnet \in {None, VnetName}, backend_addresses \in BackendAddresses, backend_addresses_config_file \in BackendAddressesConfigFiles, state \in {<<"Up", "10">>}, api \in ApiVersions :
          LET out == create_lb_backend_address_pool(lb, backend_address_pool_name, vnet,
                                                    backend_addresses,
                                                    backend_addresses_config_file,
                                                    state[1], state[2], api)
          IN  /\ lb' = LoadBalancerAfter(lb, out.calls)
              /\ last' = [op |-> "create_lb_backend_address_pool",
                          raised |-> out.raised, calls |-> Len(out.calls)]
    /\ UNCHANGED <<ag, gateway, address_pool, connection_monitor, others>>

ConfigureNetworkWatcher ==
    /\ \E locations \in {<<"westus">>, <<"eastus">>, <<"westus", "eastus">>}, resource_group_name \in {None, "rg1"}, enabled \in {None, "True", "False"}, tags \in {None, "t1"} :
          \E nonenabled_regions \in Orderings(nonenabled_set(watchers, locations)) :
             LET out == configure_network_watcher(watchers, locations, resource_group_name,
                                                  enabled, tags, nonenabled_regions)
             IN  /\ watchers' = WatchersAfter(watchers, out.calls)
                 /\ Len(watchers') <= MaxWatchers
                 /\ last' = [op |-> "configure_network_watcher", raised |-> out.raised,
                             calls |-> Len(out.calls), enabled |-> enabled]
    /\ UNCHANGED <<first, flow_logs, later, fetch_vars>>

CreateFlowLog ==
    /\ \E flow_log_name \in FlowLogNames, nsg \in {None, "nsg1"}, vnet \in {None, VnetId}, subnet \in {None, SubnetId}, nic \in {None, "nic1"}, options \in {<<0, None, None, None>>, <<7, "JSON", "2", "ws1">>, <<0, None, None, "ws9">>} :
          LET out == create_nw_flow_log(flow_log_name, nsg, vnet, subnet, nic, options[1],
                                        options[2], options[3], options[4], 60, None)
          IN  /\ flow_logs' = FlowLogsAfter(flow_logs, out.calls)
              /\ last' = [op |-> "create_nw_flow_log", raised |-> out.raised,
                          calls |-> Len(out.calls), name |-> flow_log_name,
                          given |-> [nsg |-> nsg, vnet |-> vnet, subnet |-> subnet,
                                     nic |-> nic]]
    /\ UNCHANGED <<first, watchers, later, fetch_vars>>

NextArgumentChecks == CreateBackendAddressPool \/ ConfigureNetworkWatcher \/ CreateFlowLog

SpecArgumentChecks == Init /\ [][NextArgumentChecks]_vars

NextFlowLog == CreateFlowLog

SpecFlowLog == Init /\ [][NextFlowLog]_vars

(***************************************************************************)
(* Virtual hub and virtual router handlers                                 *)
(***************************************************************************)
\* The sets of calls the service rejects during one invocation.
Rejections ==
    { {},
      {"routeserver.Create"},
      {"virtual_hubs.begin_create_or_update"},
      {"virtual_routers.begin_create_or_update"},
      {"virtual_hub_ip_configuration.begin_create_or_update"},
      {"virtual_hub_ip_configuration.begin_create_or_update",
       "virtual_hub_ip_configuration.begin_delete"},
      {"virtual_hub_ip_configuration.begin_create_or_update", "routeserver.Delete"},
      {"virtual_hub_ip_configuration.begin_create_or_update",
       "virtual_hubs.begin_delete"} }

CreateVirtualHub ==
    /\ \E virtual_hub_name \in HubNames, fails \in Rejections :
          LET out == create_virtual_hub(virtual_hubs, virtual_hub_name, SubnetId, "pip1",
                                        fails)
          IN  /\ virtual_hubs' = HubsAfter(virtual_hubs, out.calls)
              /\ last' = [op |-> "create_virtual_hub", raised |-> out.raised,
                          name |-> virtual_hub_name, calls |-> out.calls]
    /\ UNCHANGED <<first, check_vars, virtual_routers, poll_vars, policy_vars, fetch_vars>>

DeleteVirtualHub ==
    /\ \E virtual_hub_name \in HubNames :
          LET out == delete_virtual_hub(virtual_hubs, virtual_hub_name)
          IN  /\ virtual_hubs' = HubsAfter(virtual_hubs, out.calls)
              /\ last' = [op |-> "delete_virtual_hub", raised |-> out.raised,
                          name |-> virtual_hub_name, calls |-> out.calls]
    /\ UNCHANGED <<first, check_vars, virtual_routers, poll_vars, policy_vars, fetch_vars>>

CreateVirtualRouter ==
    /\ \E virtual_router_name \in HubNames, hosted_gateway \in {None, "gw1"}, fails \in Rejections :
          LET out == create_virtual_router(virtual_hubs, virtual_router_name,
                                           hosted_gateway, SubnetId, fails)
          IN  /\ virtual_hubs' = HubsAfter(virtual_hubs, out.calls)
              /\ virtual_routers' = RoutersAfter(virtual_routers, out.calls)
              /\ last' = [op |-> "create_virtual_router", raised |-> out.raised,
                          name |-> virtual_router_name, calls |-> out.calls]
    /\ UNCHANGED <<first, check_vars, poll_vars, policy_vars, fetch_vars>>

NextHubs == CreateVirtualHub \/ DeleteVirtualHub \/ CreateVirtualRouter

SpecHubs == Init /\ [][NextHubs]_vars

(***************************************************************************)
(* Handlers with no_wait                                                   *)
(***************************************************************************)
CreateRewriteRuleSet ==
    /\ call = Nothing
    /\ \E item_name \in Names, no_wait \in BOOLEAN :
          Invoke("create_ag_rewrite_rule_set", "application_gateway", item_name, no_wait,
                 create_ag_rewrite_rule_set(ag, item_name, no_wait))
    /\ UNCHANGED <<first, check_vars, hub_vars, policy_vars, fetch_vars>>

AddIpsecPolicy ==
    /\ call = Nothing
    /\ \E new_policy \in IpsecPolicies, no_wait \in BOOLEAN :
          LET out == add_vnet_gateway_ipsec_policy(gateway, new_policy, no_wait)
          IN  /\ out.raised = None =>
                    Len(out.poller.parameters.vpn_client_configuration[1]
                            .vpn_client_ipsec_policies[1]) <= MaxItems
              /\ Invoke("add_vnet_gateway_ipsec_policy", "virtual_network_gateway",
                        new_policy, no_wait, out)
    /\ UNCHANGED <<first, check_vars, hub_vars, policy_vars, fetch_vars>>

ClearIpsecPolicies ==
    /\ call = Nothing
    /\ \E no_wait \in BOOLEAN :
          Invoke("clear_vnet_gateway_ipsec_policies", "virtual_network_gateway", None,
                 no_wait, clear_vnet_gateway_ipsec_policies(gateway, no_wait))
    /\ UNCHANGED <<first, check_vars, hub_vars, policy_vars, fetch_vars>>

\* The service completes the operation on the application gateway.
CompleteApplicationGateway ==
    /\ operation["application_gateway"].status = "InProgress"
    /\ ag' = OperationResult("application_gateway")
    /\ operation' = [operation EXCEPT !["application_gateway"].status = "Succeeded"]
    /\ UNCHANGED <<lb, gateway, address_pool, connection_monitor, check_vars, hub_vars, call, policy_vars, last, fetch_vars>>

\* The service completes the operation on the virtual network gateway.
CompleteVirtualNetworkGateway ==
    /\ operation["virtual_network_gateway"].status = "InProgress"
    /\ gateway' = OperationResult("virtual_network_gateway")
    /\ operation' = [operation EXCEPT !["virtual_network_gateway"].status = "Succeeded"]
    /\ UNCHANGED <<ag, lb, address_pool, connection_monitor, check_vars, hub_vars, call, policy_vars, last, fetch_vars>>

\* .result() hands the completed application gateway to the blocked handler.
ResumeCreateRewriteRuleSet ==
    /\ call # Nothing
    /\ call[1].op = "create_ag_rewrite_rule_set"
    /\ operation["application_gateway"].status = "Succeeded"
    /\ Resume(create_ag_rewrite_rule_set_result(OperationResult("application_gateway"),
                                                call[1].name))
    /\ UNCHANGED <<first, check_vars, hub_vars, policy_vars, fetch_vars>>

\* LongRunningOperation hands the completed gateway to the blocked handler.
ResumeClearIpsecPolicies ==
    /\ call # Nothing
    /\ call[1].op = "clear_vnet_gateway_ipsec_policies"
    /\ operation["virtual_network_gateway"].status = "Succeeded"
    /\ Resume(clear_vnet_gateway_ipsec_policies_result(
                  OperationResult("virtual_network_gateway")))
    /\ UNCHANGED <<first, check_vars, hub_vars, policy_vars, fetch_vars>>

ConfigureVpnClient ==
    /\ call = Nothing
    /\ set_vpn_client_configuration
    /\ UNCHANGED <<ag, lb, address_pool, connection_monitor, others>>

NextNoWait ==
    \/ CreateRewriteRuleSet
    \/ AddIpsecPolicy
    \/ ClearIpsecPolicies
    \/ CompleteApplicationGateway
    \/ CompleteVirtualNetworkGateway
    \/ ResumeCreateRewriteRuleSet
    \/ ResumeClearIpsecPolicies
    \/ ConfigureVpnClient

SpecNoWait == Init /\ [][NextNoWait]_vars

(***************************************************************************)
(* DNS SOA record handler                                                  *)
(***************************************************************************)
\* The arguments of a call: Nothing for an argument left out.
SoaGiven ==
    [host : {Nothing, Some("ns2")},
     email : {Nothing, Some("admin2")},
     serial_number : {Nothing, Some(2)},
     refresh_time : {Nothing, Some(7200)},
     retry_time : {Nothing, Some(600)},
     expire_time : {Nothing, Some(1209600)},
     minimum_ttl : {Nothing, Some(0), Some(60)},
     if_none_match : BOOLEAN]

UpdateSoaRecord ==
    /\ \E given \in SoaGiven : update_dns_soa_record(given)
    /\ UNCHANGED <<first, check_vars, hub_vars, poll_vars, waf_policy, fetch_vars>>

NextSoa == UpdateSoaRecord

SpecSoa == Init /\ [][NextSoa]_vars

(***************************************************************************)
(* WAF managed rule set handlers                                           *)
(***************************************************************************)
RulesArg == {Nothing, Some(<<[rule_id |-> "942100"]>>)}

AddManagedRuleSet ==
    /\ \E rule_set_type \in RuleSetTypes, rule_set_version \in RuleSetVersions, rule_group_name \in RuleGroupNames \cup {None}, rules \in RulesArg :
          LET instance == add_waf_managed_rule_set(waf_policy, rule_set_type,
                                                   rule_set_version, rule_group_name, rules)
          IN  /\ PolicyInBounds(instance)
              /\ waf_policy' = instance
              /\ last' = [op |-> "add_waf_managed_rule_set", raised |-> None]
    /\ UNCHANGED <<first, check_vars, hub_vars, poll_vars, record_sets, fetch_vars>>

UpdateManagedRuleSet ==
    /\ \E rule_set_type \in RuleSetTypes, rule_set_version \in RuleSetVersions, rule_group_name \in RuleGroupNames \cup {None}, rules \in RulesArg :
          LET instance == update_waf_managed_rule_set(waf_policy, rule_set_type,
                                                      rule_set_version, rule_group_name,
                                                      rules)
          IN  /\ PolicyInBounds(instance)
              /\ waf_policy' = instance
              /\ last' = [op |-> "update_waf_managed_rule_set", raised |-> None,
                          given |-> [rule_set_type |-> rule_set_type,
                                     rule_set_version |-> rule_set_version,
                                     rule_group_name |-> rule_group_name,
                                     rules |-> rules]]
    /\ UNCHANGED <<first, check_vars, hub_vars, poll_vars, record_sets, fetch_vars>>

RemoveManagedRuleSet ==
    /\ \E rule_set_type \in RuleSetTypes, rule_set_version \in RuleSetVersions, rule_group_name \in RuleGroupNames \cup {None} :
          LET out == remove_waf_managed_rule_set(waf_policy, rule_set_type,
                                                 rule_set_version, rule_group_name)
          IN  /\ waf_policy' = IF out.raised = None THEN out.instance ELSE waf_policy
              /\ last' = [op |-> "remove_waf_managed_rule_set", raised |-> out.raised,
                          given |-> [rule_set_type |-> rule_set_type,
                                     rule_set_version |-> rule_set_version,
                                     rule_group_name |-> rule_group_name]]
    /\ UNCHANGED <<first, check_vars, hub_vars, poll_vars, record_sets, fetch_vars>>

NextWaf == AddManagedRuleSet \/ UpdateManagedRuleSet \/ RemoveManagedRuleSet

SpecWaf == Init /\ [][NextWaf]_vars

(***************************************************************************)
(* Interleaved invocations                                                 *)
(***************************************************************************)
BackendAddressPoolIds == {"pool1", "pool2"}

GetApplicationGateway ==
    /\ \E client \in Clients, item_name \in Names :
          Get(client, "create_ag_http_listener",
              [item_name |-> item_name, frontend_port |-> "port80"], ag)
    /\ UNCHANGED <<first, check_vars, later, network_interface>>

SubmitApplicationGateway ==
    /\ \E client \in Clients :
          /\ invocations[client].pc = "fetched"
          /\ invocations[client].op = "create_ag_http_listener"
          /\ LET given == invocations[client].given
                 out == create_ag_http_listener_instance(
                            invocations[client].fetched, given.item_name,
                            given.frontend_port, None, None, None)
             IN  /\ ag' = IF out.raised = None THEN out.instance ELSE ag
                 /\ Done(client, out.raised)
    /\ UNCHANGED <<lb, gateway, address_pool, connection_monitor, check_vars, later, network_interface>>

GetNetworkInterface ==
    /\ \E client \in Clients, ip_config_name \in {"IpConfig1", "ipconfig2"}, backend_address_pool \in BackendAddressPoolIds, balancer \in {<<"lb1", None>>, <<None, "ag1">>, <<None, None>>} :
          Get(client, "add_nic_ip_config_address_pool",
              [ip_config_name |-> ip_config_name,
               backend_address_pool |-> backend_address_pool,
               load_balancer_name |-> balancer[1],
               application_gateway_name |-> balancer[2]], network_interface)
    /\ UNCHANGED <<first, check_vars, later, network_interface>>

SubmitNetworkInterface ==
    /\ \E client \in Clients :
          /\ invocations[client].pc = "fetched"
          /\ invocations[client].op = "add_nic_ip_config_address_pool"
          /\ LET given == invocations[client].given
                 out == add_nic_ip_config_address_pool_instance(
                            invocations[client].fetched, given.ip_config_name,
                            given.backend_address_pool, given.load_balancer_name,
                            given.application_gateway_name)
             IN  /\ network_interface' = IF out.raised = None THEN out.instance ELSE network_interface
                 /\ Done(client, out.raised)
    /\ UNCHANGED <<first, check_vars, later>>

NextInterleave ==
    \/ GetApplicationGateway
    \/ SubmitApplicationGateway
    \/ GetNetworkInterface
    \/ SubmitNetworkInterface

SpecInterleave == Init /\ [][NextInterleave]_vars

(***************************************************************************)
(* DNS record handlers                                                     *)
(***************************************************************************)
AddMxRecord ==
    /\ \E preference \in Preferences, exchange \in Exchanges :
          add_dns_mx_record(preference, exchange)
    /\ UNCHANGED <<first, check_vars, hub_vars, poll_vars, waf_policy, fetch_vars>>

AddCnameRecord ==
    /\ \E cname \in Exchanges : add_dns_cname_record(cname)
    /\ UNCHANGED <<first, check_vars, hub_vars, poll_vars, waf_policy, fetch_vars>>

RemoveMxRecord ==
    /\ \E preference \in Preferences, exchange \in Exchanges, keep_empty_record_set \in BOOLEAN :
          remove_dns_mx_record(preference, exchange, keep_empty_record_set)
    /\ UNCHANGED <<first, check_vars, hub_vars, poll_vars, waf_policy, fetch_vars>>

RemoveCnameRecord ==
    /\ \E cname \in Exchanges, keep_empty_record_set \in BOOLEAN :
          remove_dns_cname_record(cname, keep_empty_record_set)
    /\ UNCHANGED <<first, check_vars, hub_vars, poll_vars, waf_policy, fetch_vars>>

NextDns == AddMxRecord \/ AddCnameRecord \/ RemoveMxRecord \/ RemoveCnameRecord

SpecDns == Init /\ [][NextDns]_vars

CreateOps == {"create_ag_http_listener", "create_lb_probe", "create_vnet_gateway_root_cert"}

\* C1: creating a named sub-resource (an HTTP listener, a load balancer probe,
\* a root certificate) leaves exactly one entry of that name in the collection,
\* the one built from the supplied values, and every other entry of the
\* collection as it was fetched; this also when the name was already taken.
C1_CreateReplacesByName ==
    (last.op \in CreateOps /\ last.raised = None) =>
        /\ Cardinality(Named(last.after, last.name)) = 1
        /\ \A i \in Named(last.after, last.name) : last.after[i] = last.new
        /\ WithoutName(last.after, last.name) = WithoutName(last.before, last.name)
        /\ last.after = CASE last.op = "create_ag_http_listener" -> ag.http_listeners
                           [] last.op = "create_lb_probe" -> lb.probes
                           [] OTHER ->
                                gateway.vpn_client_configuration[1].vpn_client_root_certificates[1]

\* A probe is created under a name the load balancer already uses for a
\* different probe, next to a probe of another name.
C1_Witness ==
    /\ last.op = "create_lb_probe"
    /\ last.raised = None
    /\ \E i \in Named(last.before, last.name) : last.before[i] # last.new
    /\ WithoutName(last.before, last.name) # <<>>

NoSharedName(collection) ==
    \A i, j \in DOMAIN collection : collection[i].name = collection[j].name => i = j

\* C2: after any sequence of add operations (trusted client certificates,
\* backend addresses of a pool, endpoints of a connection monitor) no two
\* entries of the collection share a name.
C2_NoTwoEntriesShareAName ==
    /\ NoSharedName(ag.trusted_client_certificates)
    /\ address_pool.load_balancer_backend_addresses # Nothing =>
           NoSharedName(address_pool.load_balancer_backend_addresses[1])
    /\ NoSharedName(connection_monitor.endpoints)

\* Every name a test group lists is the name of an endpoint, or of a test
\* configuration, of the monitor.
ReferencesResolve(cm) ==
    LET endpoints == {cm.endpoints[i].name : i \in DOMAIN cm.endpoints}
        test_configurations ==
            {cm.test_configurations[i].name : i \in DOMAIN cm.test_configurations}
    IN  \A i \in DOMAIN cm.test_groups :
            /\ Range(cm.test_groups[i].sources) \subseteq endpoints
            /\ Range(cm.test_groups[i].destinations) \subseteq endpoints
            /\ Range(cm.test_groups[i].test_configurations) \subseteq test_configurations

\* C10: from a connection monitor whose test groups list only existing
\* endpoints and test configurations, the v2 add/remove operations on
\* endpoints, test configurations and test groups lead only to such monitors.
C10_ReferencesResolve == ReferencesResolve(connection_monitor)

\* The fields of a rule an omitted argument of set_lb_rule must leave alone.
KeepsOmitted(before, after, given) ==
    /\ given.protocol = Omitted => after.protocol = before.protocol
    /\ given.frontend_port = Omitted => after.frontend_port = before.frontend_port
    /\ given.backend_port = Omitted => after.backend_port = before.backend_port
    /\ given.idle_timeout = Omitted =>
           after.idle_timeout_in_minutes = before.idle_timeout_in_minutes
    /\ given.load_distribution = Omitted =>
           after.load_distribution = before.load_distribution
    /\ given.floating_ip = Omitted => after.enable_floating_ip = before.enable_floating_ip
    /\ given.enable_tcp_reset = Omitted => after.enable_tcp_reset = before.enable_tcp_reset
    /\ given.disable_outbound_snat = Omitted =>
           after.disable_outbound_snat = before.disable_outbound_snat
    /\ given.frontend_ip_name = Omitted =>
           after.frontend_ip_configuration = before.frontend_ip_configuration
    /\ (given.backend_address_pool_name = Omitted /\ given.backend_pools_name = Nothing) =>
           /\ after.backend_address_pool = before.backend_address_pool
           /\ after.backend_address_pools = before.backend_address_pools
    /\ given.probe_name = Omitted => after.probe = before.probe

\* C3: updating a load-balancing rule leaves every field whose argument is
\* omitted as it was fetched, and changes no other rule of the load balancer.
C3_OnlyRequestedEdits ==
    [][(last'.op = "set_lb_rule" /\ last'.raised = None) =>
          /\ DOMAIN lb'.load_balancing_rules = DOMAIN lb.load_balancing_rules
          /\ \A i \in DOMAIN lb.load_balancing_rules :
                IF lb.load_balancing_rules[i].name = last'.name
                THEN KeepsOmitted(lb.load_balancing_rules[i],
                                  lb'.load_balancing_rules[i], last'.given)
                ELSE lb'.load_balancing_rules[i] = lb.load_balancing_rules[i]]_vars

\* C4: a handler whose local argument check fails raises before it has
\* issued any remote create, update or delete call, and the remote state is
\* what it was before the invocation.
C4_ArgumentErrorsPrecedeRemoteCalls ==
    [][(last'.op \in {"create_lb_backend_address_pool", "configure_network_watcher",
                      "create_nw_flow_log"}
        /\ last'.raised # None) =>
          /\ last'.calls = 0
          /\ lb' = lb
          /\ watchers' = watchers
          /\ flow_logs' = flow_logs]_vars

\* Disabling regions that have watchers, with tags given, was refused.
C4_Witness ==
    /\ last.op = "configure_network_watcher"
    /\ last.raised = "CLIError"
    /\ last.enabled = "False"
    /\ watchers # <<>>

\* The target resources a create_nw_flow_log call supplied.
SuppliedTargets(given) == {given.nsg, given.vnet, given.subnet, given.nic} \ {None}

\* C8: create_nw_flow_log raises RequiredArgumentMissingError when no target
\* is supplied, MutuallyExclusiveArgumentError when more than one of nsg,
\* vnet, subnet and nic is supplied, and otherwise the flow log it submits
\* has the single supplied target as its target_resource_id.
C8_ExactlyOneTarget ==
    last.op = "create_nw_flow_log" =>
        LET supplied == SuppliedTargets(last.given)
        IN  /\ supplied = {} => last.raised = "RequiredArgumentMissingError"
            /\ Cardinality(supplied) > 1 => last.raised = "MutuallyExclusiveArgumentError"
            /\ Cardinality(supplied) = 1 =>
                   /\ last.raised \notin {"RequiredArgumentMissingError",
                                          "MutuallyExclusiveArgumentError"}
                   /\ last.raised = None =>
                          /\ flow_logs[last.name] # Nothing
                          /\ flow_logs[last.name][1].target_resource_id \in supplied

\* The invocations of the two multi-step handlers in which the creation of
\* the hub's IP configuration was rejected after the hub had been created.
IpConfigurationFailed ==
    /\ last.op \in {"create_virtual_hub", "create_virtual_router"}
    /\ Len(last.calls) >= 2
    /\ last.calls[2].call = "virtual_hub_ip_configuration.begin_create_or_update"
    /\ ~last.calls[2].ok

\* C5 (as stated): when a later remote call of a multi-step operation fails,
\* the handler issues no further remote call (no compensating delete, no
\* rollback, no retry) and only propagates the error.
C5_NoFurtherCallsAfterFailure ==
    last.op \in {"create_virtual_hub", "create_virtual_router"} =>
        \A i \in DOMAIN last.calls :
            ~last.calls[i].ok =>
                /\ i = Len(last.calls)
                /\ last.raised = ErrorOf(last.calls[i])

\* C5 (amended): when the creation of the IP configuration fails after the
\* hub has been created, the handler does not retry; it rolls back by issuing
\* the delete of the 'Default' IP configuration and then, unless that delete
\* raised out of create_virtual_router, the delete of the hub; it raises the
\* original error when the deletes raised nothing (create_virtual_hub passes
\* over an HttpResponseError of the IP configuration delete), and otherwise
\* the error of the delete that failed.
C5_FailedIpConfigurationIsRolledBack ==
    IpConfigurationFailed =>
        LET calls == last.calls
            hub_delete == IF last.op = "create_virtual_hub" THEN "routeserver.Delete"
                          ELSE "virtual_hubs.begin_delete"
        IN  /\ Len(calls) >= 3
            /\ calls[3].call = "virtual_hub_ip_configuration.begin_delete"
            /\ \A i \in 3..Len(calls) :
                  calls[i].call \in {"virtual_hub_ip_configuration.begin_delete", hub_delete}
            /\ IF ~calls[3].ok /\ last.op = "create_virtual_router"
               THEN /\ Len(calls) = 3
                    /\ last.raised = ErrorOf(calls[3])
               ELSE /\ Len(calls) = 4
                    /\ calls[4].call = hub_delete
                    /\ last.raised = IF calls[4].ok THEN ErrorOf(calls[2])
                                     ELSE ErrorOf(calls[4])
                    /\ calls[4].ok => virtual_hubs[last.name] = Nothing

\* The IP configuration of a new hub was rejected and the hub was deleted again.
C5_Witness ==
    /\ IpConfigurationFailed
    /\ Len(last.calls) = 4
    /\ last.calls[4].ok
    /\ virtual_hubs[last.name] = Nothing

\* C6: with no_wait set a handler hands back the poller right after it has
\* submitted the update and never blocks on the long-running operation;
\* without no_wait, create_ag_rewrite_rule_set and
\* clear_vnet_gateway_ipsec_policies return only once the operation has
\* completed, and hand back the resulting sub-resource, not the poller.
C6_NoWaitReturnsThePoller ==
    /\ call # Nothing => ~call[1].no_wait
    /\ (last.op \in {"create_ag_rewrite_rule_set", "clear_vnet_gateway_ipsec_policies",
                     "add_vnet_gateway_ipsec_policy"}
        /\ last.raised = None /\ last.no_wait) =>
           /\ last.returned = "poller"
           /\ last.status = "InProgress"
    /\ (last.op = "create_ag_rewrite_rule_set" /\ last.raised = None /\ ~last.no_wait) =>
           /\ last.returned = "result"
           /\ last.status = "Succeeded"
           /\ last.value = Some([name |-> last.name])
    /\ (last.op = "clear_vnet_gateway_ipsec_policies" /\ last.raised = None
        /\ ~last.no_wait) =>
           /\ last.returned = "result"
           /\ last.status = "Succeeded"
           /\ last.value = Nothing

\* A create_ag_rewrite_rule_set call without no_wait has returned the second
\* rewrite rule set of the gateway.
C6_Witness ==
    /\ last.op = "create_ag_rewrite_rule_set"
    /\ last.raised = None
    /\ ~last.no_wait
    /\ last.returned = "result"
    /\ Len(ag.rewrite_rule_sets) = 2

SoaFields == {"host", "email", "serial_number", "refresh_time", "retry_time", "expire_time", "minimum_ttl"}

\* C7: update_dns_soa_record leaves every SOA field whose argument is
\* omitted at the value it had in the fetched record.
C7_OmittedSoaFieldsKeepTheirValue ==
    [][(last'.op = "update_dns_soa_record" /\ last'.raised = None) =>
          \A field \in SoaFields :
              last'.given[field] = Nothing =>
                  record_sets'["soa"][1].soa_record[field]
                      = record_sets["soa"][1].soa_record[field]]_vars

\* C9: the managed rule sets of the policy have pairwise distinct
\* (rule_set_type, rule_set_version) pairs after any sequence of
\* add_waf_managed_rule_set, update_waf_managed_rule_set and
\* remove_waf_managed_rule_set calls.
C9_RuleSetsPairwiseDistinct ==
    \A i, j \in DOMAIN waf_policy.managed_rule_sets :
        (/\ waf_policy.managed_rule_sets[i].rule_set_type
              = waf_policy.managed_rule_sets[j].rule_set_type
         /\ waf_policy.managed_rule_sets[i].rule_set_version
              = waf_policy.managed_rule_sets[j].rule_set_version) => i = j

\* What a completed invocation added: the collection and the key of the
\* entry, Nothing when it raised or was given no collection to add to.
Added(client) ==
    LET inv == invocations[client]
    IN  IF inv.pc # "done" \/ inv.raised # None THEN Nothing
        ELSE IF inv.op = "create_ag_http_listener"
        THEN Some(<<"http_listeners", inv.given.item_name>>)
        ELSE IF bool(inv.given.load_balancer_name)
        THEN Some(<<"load_balancer_backend_address_pools",
                    inv.given.backend_address_pool>>)
        ELSE IF bool(inv.given.application_gateway_name)
        THEN Some(<<"application_gateway_backend_address_pools",
                    inv.given.backend_address_pool>>)
        ELSE Nothing

\* The parent holds the entry.
Holds(entry) ==
    IF entry[1] = "http_listeners"
    THEN \E i \in DOMAIN ag.http_listeners : ag.http_listeners[i].name = entry[2]
    ELSE \E i \in DOMAIN network_interface.ip_configurations[1][entry[1]] :
             network_interface.ip_configurations[1][entry[1]][i].id = entry[2]

\* C11: when two invocations that each add a differently named sub-resource
\* to the same parent interleave (both have fetched the parent before either
\* submits), the parent holds both sub-resources once both have completed:
\* no completed add is lost.
C11_NoCompletedAddIsLost ==
    \A c1, c2 \in Clients :
        (/\ c1 # c2
         /\ Added(c1) # Nothing
         /\ Added(c2) # Nothing
         /\ invocations[c1].op = invocations[c2].op
         /\ Added(c1) # Added(c2)
         /\ c2 \in invocations[c1].overlapped)
        => (Holds(Added(c1)[1]) /\ Holds(Added(c2)[1]))

\* The rule set has the given type and version.
Identified(rule_set, given) ==
    /\ rule_set.rule_set_type = given.rule_set_type
    /\ rule_set.rule_set_version = given.rule_set_version

\* The rule sets of the list that the given type and version do not identify.
NotIdentified(sets, given) ==
    SelectSeq(sets, LAMBDA rule_set : ~Identified(rule_set, given))

\* No two rule sets of the list have the same type and version.
PairwiseDistinct(sets) ==
    \A i, j \in DOMAIN sets :
        (/\ sets[i].rule_set_type = sets[j].rule_set_type
         /\ sets[i].rule_set_version = sets[j].rule_set_version) => i = j

\* The overrides of the list for the group, and those for other groups.
OverridesFor(overrides, rule_group_name) ==
    SelectSeq(overrides, LAMBDA rg : rg.rule_group_name = rule_group_name)

OverridesNotFor(overrides, rule_group_name) ==
    SelectSeq(overrides, LAMBDA rg : rg.rule_group_name # rule_group_name)

\* C12: remove_waf_managed_rule_set called without rule_group_name removes
\* exactly the managed rule set whose type and version both equal the
\* arguments and leaves every other managed rule set in place and unchanged;
\* when no rule set has that type and version the list is unchanged.
\* Checked on policies whose rule sets have pairwise distinct types and
\* versions, where the type and version identify at most one rule set.
C12_RemovesExactlyTheIdentifiedRuleSet ==
    [][(/\ last'.op = "remove_waf_managed_rule_set"
        /\ PairwiseDistinct(waf_policy.managed_rule_sets)
        /\ last'.raised = None
        /\ last'.given.rule_group_name = None)
       => (/\ NotIdentified(waf_policy'.managed_rule_sets, last'.given)
                = NotIdentified(waf_policy.managed_rule_sets, last'.given)
           /\ \A i \in DOMAIN waf_policy'.managed_rule_sets :
                 ~Identified(waf_policy'.managed_rule_sets[i], last'.given))]_vars

\* C13: remove_waf_managed_rule_set called with a rule_group_name removes the
\* override for that group only from the rule set of the given type and
\* version and leaves the overrides of every other rule set unchanged; it
\* raises ResourceNotFoundError, submitting nothing, only when the rule set
\* of the given type and version has no override for the group.
C13_RemovesTheOverrideOfTheIdentifiedRuleSetOnly ==
    [][(/\ last'.op = "remove_waf_managed_rule_set"
        /\ PairwiseDistinct(waf_policy.managed_rule_sets)
        /\ last'.given.rule_group_name # None)
       => LET before == waf_policy.managed_rule_sets
              after == waf_policy'.managed_rule_sets
              G == last'.given.rule_group_name
          IN  IF last'.raised = None
              THEN /\ Len(after) = Len(before)
                   /\ \A i \in DOMAIN before :
                         IF Identified(before[i], last'.given)
                         THEN /\ Identified(after[i], last'.given)
                              /\ OverridesNotFor(after[i].rule_group_overrides, G)
                                    = OverridesNotFor(before[i].rule_group_overrides, G)
                              /\ Len(OverridesFor(after[i].rule_group_overrides, G))
                                    < Len(OverridesFor(before[i].rule_group_overrides, G))
                         ELSE after[i] = before[i]
              ELSE /\ last'.raised = "ResourceNotFoundError"
                   /\ after = before
                   /\ ~\E i \in DOMAIN before :
                         /\ Identified(before[i], last'.given)
                         /\ OverridesFor(before[i].rule_group_overrides, G) # <<>>]_vars

\* C14: update_waf_managed_rule_set with a rule_group_name and rules, on a
\* policy that holds the rule set of the given type and version, overrides
\* only that group: afterwards that rule set holds exactly one override for
\* the group, with exactly the supplied rules, and no other override of it and
\* no other rule set is added, removed or changed.
C14_UpdateOverridesOnlyTheGroup ==
    [][(/\ last'.op = "update_waf_managed_rule_set"
        /\ PairwiseDistinct(waf_policy.managed_rule_sets)
        /\ last'.raised = None
        /\ last'.given.rule_group_name # None
        /\ last'.given.rules # Nothing
        /\ \E i \in DOMAIN waf_policy.managed_rule_sets :
              Identified(waf_policy.managed_rule_sets[i], last'.given))
       => LET before == waf_policy.managed_rule_sets
              after == waf_policy'.managed_rule_sets
              G == last'.given.rule_group_name
          IN  /\ Len(after) = Len(before)
              /\ \A i \in DOMAIN before :
                    IF Identified(before[i], last'.given)
                    THEN /\ Identified(after[i], last'.given)
                         /\ OverridesNotFor(after[i].rule_group_overrides, G)
                               = OverridesNotFor(before[i].rule_group_overrides, G)
                         /\ OverridesFor(after[i].rule_group_overrides, G)
                               = <<[rule_group_name |-> G, rules |-> last'.given.rules]>>
                    ELSE after[i] = before[i]]_vars

RemoveOps == {"remove_dns_mx_record", "remove_dns_cname_record"}

\* The MX records of the zone's MX record set in this state: none when the
\* record set does not exist.
MxRecords(sets) ==
    IF sets["mx"] = Nothing \/ sets["mx"][1].mx_records = Nothing THEN <<>>
    ELSE sets["mx"][1].mx_records[1]

\* C15: remove_dns_mx_record removes exactly the records whose every field
\* (preference and exchange) equals the field of the record given on the
\* command line and keeps all other records of the record set, in order.
C15_RemovesExactlyTheEqualRecords ==
    [][(last'.op = "remove_dns_mx_record" /\ last'.raised = None)
       => MxRecords(record_sets')
             = SelectSeq(MxRecords(record_sets), LAMBDA r : r # last'.record)]_vars

\* The record set of the type exists and holds the record.
Present(sets, record_type, record) ==
    /\ sets[record_type] # Nothing
    /\ IF record_type = "mx"
       THEN \E i \in DOMAIN MxRecords(sets) : MxRecords(sets)[i] = record
       ELSE sets["cname"][1].cname_record = Some(record)

RecordTypeOf(op) == IF op = "remove_dns_mx_record" THEN "mx" ELSE "cname"

\* C16: removing a record that is not in the record set (a record set without
\* records of the type, a CNAME whose stored value differs from the given
\* one) fails with 'Record ... not found.' (CLIError) and issues neither an
\* update nor a delete of the record set.
C16_RemovingAnAbsentRecordFails ==
    [][(/\ last'.op \in RemoveOps
        /\ record_sets[RecordTypeOf(last'.op)] # Nothing
        /\ ~Present(record_sets, RecordTypeOf(last'.op), last'.record))
       => (/\ last'.raised = "CLIError"
           /\ last'.call = None
           /\ record_sets' = record_sets)]_vars

\* The number of records a removal leaves in the record set of this state.
Remaining(op, record) ==
    IF op = "remove_dns_mx_record"
    THEN Len(SelectSeq(MxRecords(record_sets),
                       LAMBDA r : ~dict_matches_filter(dict(r), dict(record))))
    ELSE 0

\* C17: when removing a record leaves the record set without records, the
\* record set is deleted unless keep_empty_record_set is set, in which case
\* it is kept and resubmitted with no records; when at least one record
\* remains the record set is updated and not deleted.
C17_EmptyRecordSetIsDeletedUnlessKept ==
    [][(last'.op \in RemoveOps /\ last'.raised = None)
       => LET record_type == RecordTypeOf(last'.op)
              after == record_sets'[record_type]
          IN  IF Remaining(last'.op, last'.record) = 0 /\ ~last'.keep_empty_record_set
              THEN last'.call = "delete" /\ after = Nothing
              ELSE /\ last'.call = "create_or_update"
                   /\ after # Nothing
                   /\ IF record_type = "mx"
                      THEN Len(MxRecords(record_sets'))
                               = Remaining(last'.op, last'.record)
                      ELSE after[1].cname_record = Nothing]_vars

\* A removal with keep_empty_record_set has left an MX record set without
\* records.
C17_Witness ==
    /\ last.op = "remove_dns_mx_record"
    /\ last.raised = None
    /\ last.keep_empty_record_set
    /\ last.call = "create_or_update"
    /\ record_sets["mx"] # Nothing
    /\ record_sets["mx"][1].mx_records = Some(<<>>)

====
